---- MODULE Spec2Model ----
(***************************************************************************)
(* Model of the trade journal's session store (journal_app.py JournalApp   *)
(* with autosave.py AutosaveMixin): the per-bar observation lists          *)
(* self.data, the undo stack self.history, the debounced autosave timer,   *)
(* the persisted session file and the CSV import/export.                   *)
(*                                                                         *)
(* Texts are sequences of one-character strings, so that the string code   *)
(* of the program (strip, replace, regular expression match, join, split,  *)
(* str, int) is modelled by what it computes.                              *)
(***************************************************************************)
EXTENDS Integers, Sequences, FiniteSets, TLC

VARIABLES
    data,               \* self.data: bar key -> record of ts and four lists
    history,            \* self.history: the undo stack
    shift_held,         \* self.shift_held
    last_selected_row,  \* self._last_selected_row (= the sheet's selected row)
    now,                \* the last reading of datetime.now()
    timers,             \* identifiers of the pending Tk after() callbacks
    autosave_after_id,  \* self._autosave_after_id (0: attribute not set)
    disk,               \* content of the file at _autosave_path()
    last,               \* the handler that ran last and what it did
    pre,                \* self.data and self.history when the mutation that
                        \* ran last began, or the undo that ran last when it
                        \* met a list that is not as the popped entry left it
    presets,            \* constants.BULL_POINTS, BEAR_POINTS, TR_POINTS, BIAS_POINTS
    preset_files,       \* the presets.json files the program looks for
    prompt              \* the handle_point_button call that waits in askstring

vars == <<data, history, shift_held, last_selected_row, now, timers,
          autosave_after_id, disk, last, pre, presets, preset_files, prompt>>

(***************************************************************************)
(* Bounds of the model.                                                    *)
(***************************************************************************)
\* rows 0..MaxRow of the sheet can be selected by the user
MaxRow == 1
\* mutating handlers are explored while the undo stack is shorter than this
MaxHist == 3
\* the clock is read up to this value
MaxClock == 1
\* the life cycle is explored while the undo stack is no longer than this
MaxLifeHist == 1
\* every kind of mutation is explored while the undo stack is no longer than this
MaxUndoHist == 1

(***************************************************************************)
(* Program constants.                                                      *)
(***************************************************************************)
\* constants.py: BAR_ORDER = ["RTH", "ETH"] + list(range(1, 82))
BarRangeEnd == 82
LastBar == BarRangeEnd - 1
\* journal_app.py _parse_bar_key: max(1, min(81, n))
MaxBarNumber == 81

Min(a, b) == IF a < b THEN a ELSE b
Max(a, b) == IF a > b THEN a ELSE b

(***************************************************************************)
(* Bar keys.  Python keeps the str keys "RTH"/"ETH" and the int keys 1..81 *)
(* in one dict; a key is modelled as a tagged record.                      *)
(***************************************************************************)
StrKey(s) == [int |-> FALSE, n |-> 0, s |-> s]
IntKey(n) == [int |-> TRUE, n |-> n, s |-> ""]

BAR_ORDER == <<StrKey("RTH"), StrKey("ETH")>> \o [i \in 1..LastBar |-> IntKey(i)]

BarKeys == {BAR_ORDER[i] : i \in 1..Len(BAR_ORDER)}

\* BAR_ORDER[row] with Python's 0-based row
BarAt(row) == BAR_ORDER[row + 1]

KINDS == <<"bull", "bear", "tr", "bias">>
KindSet == {"bull", "bear", "tr", "bias"}

\* KINDS_BY_COL: sheet column -> kind (column 0 is the bar label)
KINDS_BY_COL == [c \in 1..4 |-> KINDS[c]]

NewRecord(ts) == [ts |-> ts, bull |-> <<>>, bear |-> <<>>, tr |-> <<>>, bias |-> <<>>]

(***************************************************************************)
(* Strings.                                                                *)
(***************************************************************************)
\* str.isspace for the characters of the model
IsSpace(c) == c \in {" ", "\t", "\n", "\r"}

AllSpace(s) == \A i \in 1..Len(s) : IsSpace(s[i])

RECURSIVE lstrip(_)
lstrip(s) == IF s # <<>> /\ IsSpace(Head(s)) THEN lstrip(Tail(s)) ELSE s

RECURSIVE rstrip(_)
rstrip(s) ==
    IF s # <<>> /\ IsSpace(s[Len(s)]) THEN rstrip(SubSeq(s, 1, Len(s) - 1)) ELSE s

\* str.strip()
strip(s) == rstrip(lstrip(s))

\* index (1-based) of the first occurrence of "()" in s, 0 when there is none
FindMarker(s) ==
    LET hits == {i \in 1..(Len(s) - 1) : s[i] = "(" /\ s[i + 1] = ")"}
    IN  IF hits = {} THEN 0 ELSE CHOOSE i \in hits : \A j \in hits : i <= j

\* s.replace("()", r, 1)
ReplaceMarker(s, r) ==
    LET i == FindMarker(s)
    IN  IF i = 0 THEN s
        ELSE SubSeq(s, 1, i - 1) \o r \o SubSeq(s, i + 2, Len(s))

\* "\n".join(list)
RECURSIVE join(_)
join(list) ==
    IF list = <<>> THEN <<>>
    ELSE IF Len(list) = 1 THEN list[1]
    ELSE list[1] \o <<"\n">> \o join(Tail(list))

\* s.split("\n")
RECURSIVE split(_)
split(s) ==
    LET nl == {i \in 1..Len(s) : s[i] = "\n"}
    IN  IF nl = {} THEN <<s>>
        ELSE LET i == CHOOSE k \in nl : \A j \in nl : k <= j
             IN  <<SubSeq(s, 1, i - 1)>> \o split(SubSeq(s, i + 1, Len(s)))

\* [x for x in list if x.strip()]
RECURSIVE DropBlank(_)
DropBlank(list) ==
    IF list = <<>> THEN <<>>
    ELSE IF strip(Head(list)) # <<>> THEN <<Head(list)>> \o DropBlank(Tail(list))
    ELSE DropBlank(Tail(list))

\* text in bucket
In(text, bucket) == \E i \in 1..Len(bucket) : bucket[i] = text

\* a faulty index that points one element too far
IndexOf_next(text, bucket) ==
    1 + (CHOOSE i \in 1..Len(bucket) :
            bucket[i] = text /\ \A j \in 1..(i - 1) : bucket[j] # text) - 1

\* bucket.index(text) as a 0-based index (text is in bucket)
IndexOf(text, bucket) ==
    (CHOOSE i \in 1..Len(bucket) :
        bucket[i] = text /\ \A j \in 1..(i - 1) : bucket[j] # text) - 1

\* a faulty pop that ignores the index: bucket.pop(0)
PopAt_head(bucket, idx) == Tail(bucket)

\* bucket.pop(idx) with a 0-based idx
PopAt(bucket, idx) == SubSeq(bucket, 1, idx) \o SubSeq(bucket, idx + 2, Len(bucket))

\* a faulty insert that ignores the index: bucket.append(text)
InsertAt_append(bucket, idx, text) == Append(bucket, text)

\* bucket.insert(idx, text) with a 0-based idx in 0..len(bucket)
InsertAt(bucket, idx, text) ==
    SubSeq(bucket, 1, idx) \o <<text>> \o SubSeq(bucket, idx + 1, Len(bucket))

(***************************************************************************)
(* Template labels.                                                        *)
(***************************************************************************)
\* _is_templated_label: "()" in label
is_templated_label(label) == FindMarker(label) # 0

\* _button_base: label.replace("()", "", 1).rstrip()
button_base(label) == rstrip(ReplaceMarker(label, <<>>))

\* _format_templated_entry
format_templated_entry(label, user_text) ==
    IF FindMarker(label) # 0
    THEN ReplaceMarker(label, <<"(">> \o user_text \o <<")">>)
    ELSE label \o <<" ", "(">> \o user_text \o <<")">>

NoParens(s) == \A i \in 1..Len(s) : s[i] \notin {"(", ")"}

\* re.compile(rf"^{re.escape(base)}\s*\([^()]*\)\s*$").match(txt)
PatternMatch(base, txt) ==
    /\ Len(txt) >= Len(base)
    /\ SubSeq(txt, 1, Len(base)) = base
    /\ LET r == SubSeq(txt, Len(base) + 1, Len(txt))
       IN  \E i \in 1..Len(r) : \E j \in (i + 1)..Len(r) :
               /\ AllSpace(SubSeq(r, 1, i - 1))
               /\ r[i] = "("
               /\ NoParens(SubSeq(r, i + 1, j - 1))
               /\ r[j] = ")"
               /\ AllSpace(SubSeq(r, j + 1, Len(r)))

\* _find_latest_templated_match: the 0-based index of the match, -1 for None
find_latest_templated_match(bucket, base) ==
    LET hits == {i \in 1..Len(bucket) : PatternMatch(base, bucket[i])}
    IN  IF hits = {} THEN -1
        ELSE (CHOOSE i \in hits : \A j \in hits : j <= i) - 1

\* _any_templated_for_base_exists
any_templated_for_base_exists(bucket, base) ==
    find_latest_templated_match(bucket, base) # -1

(***************************************************************************)
(* Bar keys as text: str(bar) on export, _parse_bar_key on import.         *)
(***************************************************************************)
DigitChars == <<"0", "1", "2", "3", "4", "5", "6", "7", "8", "9">>

IsDigit(c) == \E d \in 1..10 : DigitChars[d] = c

DigitVal(c) == (CHOOSE d \in 1..10 : DigitChars[d] = c) - 1

\* str(n) for an int n >= 0
RECURSIVE StrOfNat(_)
StrOfNat(n) ==
    IF n < 10 THEN <<DigitChars[n + 1]>>
    ELSE StrOfNat(n \div 10) \o <<DigitChars[(n % 10) + 1]>>

\* the characters of a str key
KeyChars(s) ==
    IF s = "RTH" THEN <<"R", "T", "H">>
    ELSE IF s = "ETH" THEN <<"E", "T", "H">>
    ELSE <<>>

\* str(bar_key)
str(key) == IF key.int THEN StrOfNat(key.n) ELSE KeyChars(key.s)

\* str.upper() on the letters the model's inputs use
UpperChar(c) ==
    CASE c = "r" -> "R"
      [] c = "t" -> "T"
      [] c = "h" -> "H"
      [] c = "e" -> "E"
      [] c = "a" -> "A"
      [] c = "b" -> "B"
      [] c = "d" -> "D"
      [] c = "x" -> "X"
      [] c = "y" -> "Y"
      [] OTHER -> c

upper(s) == [i \in 1..Len(s) |-> UpperChar(s[i])]

\* the value of a digit string
RECURSIVE DigitsVal(_)
DigitsVal(s) ==
    IF s = <<>> THEN 0
    ELSE 10 * DigitsVal(SubSeq(s, 1, Len(s) - 1)) + DigitVal(s[Len(s)])

AllDigits(s) == s # <<>> /\ \A i \in 1..Len(s) : IsDigit(s[i])

\* int(s) succeeds: an optional sign followed by decimal digits
IsIntLiteral(s) ==
    \/ AllDigits(s)
    \/ s # <<>> /\ Head(s) \in {"+", "-"} /\ AllDigits(Tail(s))

\* int(s) for a string int() accepts
IntOf(s) ==
    IF Head(s) = "-" THEN 0 - DigitsVal(Tail(s))
    ELSE IF Head(s) = "+" THEN DigitsVal(Tail(s))
    ELSE DigitsVal(s)

\* a faulty _parse_bar_key that does not clamp the number to 1..81
parse_bar_key_unclamped(s) ==
    LET s_up == upper(strip(s))
    IN  IF s_up = <<"R", "T", "H">> THEN StrKey("RTH")
        ELSE IF s_up = <<"E", "T", "H">> THEN StrKey("ETH")
        ELSE IF IsIntLiteral(s_up) THEN IntKey(IntOf(s_up))
        ELSE StrKey("RTH")

\* _parse_bar_key for a str argument
parse_bar_key(s) ==
    LET s_up == upper(strip(s))
    IN  IF s_up = <<"R", "T", "H">> THEN StrKey("RTH")
        ELSE IF s_up = <<"E", "T", "H">> THEN StrKey("ETH")
        ELSE IF IsIntLiteral(s_up) THEN IntKey(Max(1, Min(MaxBarNumber, IntOf(s_up))))
        ELSE StrKey("RTH")

(***************************************************************************)
(* The session dict.                                                       *)
(***************************************************************************)
\* _ensure_bar_exists
ensure_bar_exists(d, bar_key, t) ==
    IF bar_key \in DOMAIN d THEN d
    ELSE [k \in (DOMAIN d) \cup {bar_key} |->
             IF k = bar_key THEN NewRecord(t) ELSE d[k]]

\* "for key in BAR_ORDER: self._ensure_bar_exists(key)": the dict after the loop
EnsureAll(d, t) ==
    [k \in (DOMAIN d) \cup BarKeys |-> IF k \in DOMAIN d THEN d[k] ELSE NewRecord(t)]

EmptyDict == [k \in {} |-> NewRecord(0)]

\* self.data[bar][kind] = bucket
SetBucket(d, bar, kind, bucket) == [d EXCEPT ![bar][kind] = bucket]

(***************************************************************************)
(* History entries.  Python stores tuples told apart by length and first   *)
(* element: (bar, kind, text), ("remove", bar, kind, text, idx),           *)
(* ("clear_bar", bar, prev) and ("clear_cell", bar, kind, prev_list).      *)
(***************************************************************************)
\* a faulty add entry that forgets the text
AddEntry_untexted(bar, kind, text) ==
    [tag |-> "add", bar |-> bar, kind |-> kind, text |-> <<>>, idx |-> 0,
     prev |-> NewRecord(0), prev_list |-> <<>>]

AddEntry(bar, kind, text) ==
    [tag |-> "add", bar |-> bar, kind |-> kind, text |-> text, idx |-> 0,
     prev |-> NewRecord(0), prev_list |-> <<>>]

RemoveEntry(bar, kind, text, idx) ==
    [tag |-> "remove", bar |-> bar, kind |-> kind, text |-> text, idx |-> idx,
     prev |-> NewRecord(0), prev_list |-> <<>>]

\* a faulty clear-bar entry that forgets the previous record
ClearBarEntry_blank(bar, prev) ==
    [tag |-> "clear_bar", bar |-> bar, kind |-> "", text |-> <<>>, idx |-> 0,
     prev |-> NewRecord(prev.ts), prev_list |-> <<>>]

ClearBarEntry(bar, prev) ==
    [tag |-> "clear_bar", bar |-> bar, kind |-> "", text |-> <<>>, idx |-> 0,
     prev |-> prev, prev_list |-> <<>>]

\* a faulty clear-category entry that holds the live list, which the clear
\* has emptied, instead of a copy
ClearCellEntry_live(bar, kind, prev_list) ==
    [tag |-> "clear_cell", bar |-> bar, kind |-> kind, text |-> <<>>, idx |-> 0,
     prev |-> NewRecord(0), prev_list |-> <<>>]

ClearCellEntry(bar, kind, prev_list) ==
    [tag |-> "clear_cell", bar |-> bar, kind |-> kind, text |-> <<>>, idx |-> 0,
     prev |-> NewRecord(0), prev_list |-> prev_list]

\* a faulty index that puts every restored entry at the head of the list
undo_index_head(bucket, idx) == 0

\* undo_last, "remove": max(0, min(len(bucket), idx))
undo_index(bucket, idx) == Max(0, Min(Len(bucket), idx))

\* a faulty undo that takes the last element off whatever it is
undo_event_pop_any(d, event) ==
    IF event.tag = "add" /\ event.bar \in DOMAIN d
    THEN LET bucket == d[event.bar][event.kind]
         IN  SetBucket(d, event.bar, event.kind,
                       SubSeq(bucket, 1, Len(bucket) - 1))
    ELSE d

\* undo_last: self.data after the inverse of the popped event is applied
undo_event(d, event) ==
    CASE event.tag = "clear_bar" ->
            [k \in (DOMAIN d) \cup {event.bar} |->
                IF k = event.bar THEN event.prev ELSE d[k]]
      [] event.tag = "add" ->
            IF event.bar \in DOMAIN d
            THEN LET bucket == d[event.bar][event.kind]
                 IN  IF bucket # <<>> /\ bucket[Len(bucket)] = event.text
                     THEN SetBucket(d, event.bar, event.kind,
                                    SubSeq(bucket, 1, Len(bucket) - 1))
                     ELSE d
            ELSE d
      [] event.tag = "remove" ->
            IF event.bar \in DOMAIN d
            THEN LET bucket == d[event.bar][event.kind]
                     idx == undo_index(bucket, event.idx)
                 IN  SetBucket(d, event.bar, event.kind,
                               InsertAt(bucket, idx, event.text))
            ELSE d
      [] event.tag = "clear_cell" ->
            IF event.bar \in DOMAIN d
            THEN SetBucket(d, event.bar, event.kind, event.prev_list)
            ELSE d
      [] OTHER -> d

(***************************************************************************)
(* CSV export and import.  A CSV file is the sequence of rows the csv      *)
(* module writes and reads back, each row a sequence of cell strings; bad  *)
(* is the number of the row at which reading the file raises (0: never).   *)
(***************************************************************************)
COLUMNS == << <<"B", "a", "r">>, <<"B", "u", "l", "l">>, <<"B", "e", "a", "r">>,
              <<"T", "R">>, <<"B", "i", "a", "s">> >>

\* _row_of, with the bar cell as csv.writer writes it
row_of(d, bar) ==
    <<str(bar), join(d[bar].bull), join(d[bar].bear), join(d[bar].tr),
      join(d[bar].bias)>>

\* a faulty export that writes the bars 1..81 before the two sessions
save_csv_rows_numbers_first(d) ==
    <<COLUMNS>> \o [i \in 1..Len(BAR_ORDER) |->
                     row_of(d, BAR_ORDER[((i + 1) % Len(BAR_ORDER)) + 1])]

\* save_csv: the rows written
save_csv_rows(d) ==
    <<COLUMNS>> \o [i \in 1..Len(BAR_ORDER) |-> row_of(d, BAR_ORDER[i])]

\* a faulty split_lines that keeps the blank lines
split_lines_keep(row, i) ==
    IF i < Len(row) /\ strip(row[i + 1]) # <<>>
    THEN split(row[i + 1])
    ELSE <<>>

\* load_csv: split_lines(i) of one row, i the 0-based cell index
split_lines(row, i) ==
    IF i < Len(row) /\ strip(row[i + 1]) # <<>>
    THEN DropBlank(split(row[i + 1]))
    ELSE <<>>

\* load_csv: the key a data row is applied to
row_key(row) == parse_bar_key(strip(row[1]))

\* a faulty loop body that stores a record without the bar's time stamp
load_csv_row_unstamped(cur, row) ==
    [ts |-> -1,
     bull |-> split_lines(row, 1),
     bear |-> split_lines(row, 2),
     tr |-> split_lines(row, 3),
     bias |-> split_lines(row, 4)]

\* load_csv: the record the loop body stores for a row, cur the bar's record
\* before it (the four lists are overwritten, the timestamp is kept)
load_csv_row(cur, row) ==
    [ts |-> cur.ts,
     bull |-> split_lines(row, 1),
     bear |-> split_lines(row, 2),
     tr |-> split_lines(row, 3),
     bias |-> split_lines(row, 4)]

\* a faulty loop in which the first row that names a bar wins
load_csv_rows_first(d, rows, upto, t) ==
    LET used == {i \in 2..upto : rows[i] # <<>>}
        key == [i \in used |-> row_key(rows[i])]
        named == {key[i] : i \in used}
    IN  [k \in (DOMAIN d) \cup named |->
            LET hits == {i \in used : key[i] = k}
                cur == IF k \in DOMAIN d THEN d[k] ELSE NewRecord(t)
            IN  IF hits = {} THEN cur
                ELSE load_csv_row(cur, rows[CHOOSE i \in hits : \A j \in hits : i <= j])]

\* load_csv: "for row in reader" over the rows 2..upto of the file.  Every row
\* overwrites the four lists of its bar, so a bar ends with the lists of the
\* last row that names it, and a bar no row names is left as it is.
load_csv_rows(d, rows, upto, t) ==
    LET used == {i \in 2..upto : rows[i] # <<>>}
        key == [i \in used |-> row_key(rows[i])]
        named == {key[i] : i \in used}
    IN  [k \in (DOMAIN d) \cup named |->
            LET hits == {i \in used : key[i] = k}
                cur == IF k \in DOMAIN d THEN d[k] ELSE NewRecord(t)
            IN  IF hits = {} THEN cur
                ELSE load_csv_row(cur, rows[CHOOSE i \in hits : \A j \in hits : j <= i])]

\* the number of data rows load_csv applies before it stops
RowsApplied(file) ==
    IF file.bad = 0 THEN Max(0, Len(file.rows) - 1)
    ELSE Max(0, Min(Len(file.rows), file.bad - 1) - 1)

\* load_csv raises while reading
LoadFails(file) == file.bad # 0 /\ file.bad <= Len(file.rows) + 1

\* load_csv: self.data when the with-block is left (normally or by raising)
load_csv_data(d, file, t) ==
    load_csv_rows(d, file.rows, 1 + RowsApplied(file), t)

(***************************************************************************)
(* The persisted session file.  json.dump writes every key as a string;    *)
(* the file is absent, unparsable ("corrupt"), parses to an object keyed   *)
(* by strings ("ok"), or parses to a JSON array ("array").                 *)
(***************************************************************************)
\* the values json.load returns for a field of a record: a string (a time
\* stamp), a number, an array, or nothing when the field is missing
JsonString(t) == [type |-> "string", ts |-> t, items |-> <<>>]
JsonNumber == [type |-> "number", ts |-> 0, items |-> <<>>]
JsonArray(items) == [type |-> "array", ts |-> 0, items |-> items]
JsonMissing == [type |-> "missing", ts |-> 0, items |-> <<>>]

\* a number as an element of a JSON array: no string equals it
NumberItem == <<"#7">>

\* what json.dump writes for one record of self.data; dict tells whether the
\* value under the key is a JSON object, note is a field the program does not
\* know
JsonRecord(rec) ==
    [dict |-> TRUE, ts |-> JsonString(rec.ts),
     bull |-> JsonArray(rec.bull), bear |-> JsonArray(rec.bear),
     tr |-> JsonArray(rec.tr), bias |-> JsonArray(rec.bias),
     note |-> JsonMissing]

NoObject == [k \in {} |-> JsonRecord(NewRecord(0))]

AbsentFile == [state |-> "absent", obj |-> NoObject]
CorruptFile == [state |-> "corrupt", obj |-> NoObject]
ArrayFile == [state |-> "array", obj |-> NoObject]

\* str(key) for the keys of BAR_ORDER, and the key written as the string k
StrOfKey == [key \in BarKeys |-> str(key)]
KeyOfStr == [k \in {str(key) : key \in BarKeys} |-> CHOOSE key \in BarKeys : str(key) = k]

\* the string json.dump writes for a key of the dict
JsonKey(key) == IF key \in BarKeys THEN StrOfKey[key] ELSE str(key)

\* json.dump(self.data, f) followed by json.load(f)
ToJson(d) ==
    [k \in {JsonKey(key) : key \in DOMAIN d} |->
        IF k \in DOMAIN KeyOfStr /\ KeyOfStr[k] \in DOMAIN d
        THEN JsonRecord(d[KeyOfStr[k]])
        ELSE JsonRecord(d[CHOOSE key \in DOMAIN d : str(key) = k])]

\* _save_session_json: the file after a write with the given outcome
save_session_json(dsk, d, outcome) ==
    CASE outcome = "ok" -> [state |-> "ok", obj |-> ToJson(d)]
      [] outcome = "open_fails" -> dsk
      [] OTHER -> CorruptFile

WriteOutcomes == {"ok", "open_fails", "write_fails"}

\* a faulty lookup that asks the file for the key itself, so that no integer
\* key is found under its string
load_session_key_raw(d, loaded, key) ==
    LET cur == IF key \in DOMAIN d THEN d[key] ELSE NewRecord(-1)
    IN  IF ~key.int /\ JsonKey(key) \in DOMAIN loaded
        THEN LET rec == loaded[JsonKey(key)]
             IN  [ts |-> rec.ts.ts, bull |-> rec.bull.items, bear |-> rec.bear.items,
                  tr |-> rec.tr.items, bias |-> rec.bias.items]
        ELSE cur

\* _load_session_json: the record of one key after the loop body
load_session_key(d, loaded, key) ==
    LET cur == IF key \in DOMAIN d THEN d[key] ELSE NewRecord(-1)
        copy(field, prior) == IF field.type = "array" THEN field.items ELSE prior
    IN  IF JsonKey(key) \in DOMAIN loaded /\ loaded[JsonKey(key)].dict
        THEN LET rec == loaded[JsonKey(key)]
             IN  [ts |-> IF rec.ts.type = "string" THEN rec.ts.ts ELSE cur.ts,
                  bull |-> copy(rec.bull, cur.bull),
                  bear |-> copy(rec.bear, cur.bear),
                  tr |-> copy(rec.tr, cur.tr),
                  bias |-> copy(rec.bias, cur.bias)]
        ELSE cur

\* _load_session_json: "for key in BAR_ORDER", every key handled on its own
load_session_keys(d, loaded) ==
    [k \in (DOMAIN d) \cup BarKeys |->
        IF k \in BarKeys THEN load_session_key(d, loaded, k) ELSE d[k]]

\* _load_session_json: self.data after the call; on a JSON array the first
\* loaded.get raises, after the first key was looked up in self.data
load_session_json(d, dsk) ==
    CASE dsk.state = "ok" -> load_session_keys(d, dsk.obj)
      [] dsk.state = "array" -> ensure_bar_exists(d, BAR_ORDER[1], -1)
      [] OTHER -> d

\* _load_session_json: the value it returns
load_session_result(dsk) == dsk.state = "ok"

(***************************************************************************)
(* The preset lists.  constants.py reads presets.json next to the module   *)
(* or one level up when it is imported (keys bull, bear, tr, bias); the    *)
(* application then reads presets.json in the working directory (keys      *)
(* bull_points, ...), which is also the file _save_presets writes.  When   *)
(* the working directory is the module's directory (same), the first       *)
(* candidate and the working-directory file are one file.                  *)
(***************************************************************************)
\* BULL_POINTS_DEFAULT, ..., BIAS_POINTS_DEFAULT, shortened
DefaultPresets ==
    [bull |-> << <<"a">>, <<"D", "B", "(", ")">> >>,
     bear |-> << <<"b">> >>,
     tr |-> << <<"i", "i", "(", ")">> >>,
     bias |-> << <<"T", "R">> >>]

\* the key _save_presets and _load_presets_and_apply use for a category
PointsKey(k) ==
    CASE k = "bull" -> "bull_points"
      [] k = "bear" -> "bear_points"
      [] k = "tr" -> "tr_points"
      [] OTHER -> "bias_points"

PresetKeys == KindSet \cup {PointsKey(k) : k \in KindSet}

\* a presets.json: absent, unparsable ("corrupt"), a JSON array, or an object
NoPresets == [key \in PresetKeys |-> JsonMissing]

AbsentPresets == [state |-> "absent", obj |-> NoPresets]
CorruptPresets == [state |-> "corrupt", obj |-> NoPresets]
ArrayPresets == [state |-> "array", obj |-> NoPresets]

\* str(x) for an element of a list of the file
str_item(x) == IF x = NumberItem THEN <<"7">> ELSE x

\* [str(x) for x in v]
StrAll(items) == [i \in 1..Len(items) |-> str_item(items[i])]

\* _load_project_presets: _norm(key, fallback)
norm(v, fallback) == IF v.type = "array" THEN StrAll(v.items) ELSE fallback

\* _load_project_presets over the candidate files: the first one that is a
\* file, parses and is an object decides
load_project_presets(candidates) ==
    LET usable == {i \in 1..Len(candidates) : candidates[i].state = "ok"}
    IN  IF usable = {} THEN DefaultPresets
        ELSE LET f == candidates[CHOOSE i \in usable : \A j \in usable : i <= j]
             IN  [k \in KindSet |-> norm(f.obj[k], DefaultPresets[k])]

\* a faulty _load_presets_and_apply that reads the keys bull, bear, tr, bias
load_presets_and_apply_plain_keys(p, f) ==
    IF f.state = "ok"
    THEN [k \in KindSet |->
            IF f.obj[k].type = "array" THEN StrAll(f.obj[k].items) ELSE p[k]]
    ELSE p

\* _load_presets_and_apply: the lists after it, p the lists before
load_presets_and_apply(p, f) ==
    IF f.state = "ok"
    THEN [k \in KindSet |->
            IF f.obj[PointsKey(k)].type = "array"
            THEN StrAll(f.obj[PointsKey(k)].items)
            ELSE p[k]]
    ELSE p

\* _save_presets: the working-directory file after the write
save_presets(p, f, outcome) ==
    CASE outcome = "ok" ->
           [state |-> "ok",
            obj |-> [key \in PresetKeys |->
                       IF \E k \in KindSet : key = PointsKey(k)
                       THEN JsonArray(p[CHOOSE k \in KindSet : key = PointsKey(k)])
                       ELSE JsonMissing]]
      [] outcome = "open_fails" -> f
      [] OTHER -> CorruptPresets

\* the candidates of _load_project_presets
Candidates(pf) == <<IF pf.same THEN pf.cwd ELSE pf.module, pf.parent>>

\* the lists the panels are built from at a start: the import of constants,
\* then _load_presets_and_apply
StartPresets(pf) ==
    load_presets_and_apply(load_project_presets(Candidates(pf)), pf.cwd)

\* no presets.json anywhere
NoPresetFiles ==
    [same |-> FALSE, module |-> AbsentPresets, parent |-> AbsentPresets,
     cwd |-> AbsentPresets]

(***************************************************************************)
(* What the user can do: the inputs of the handlers.                       *)
(***************************************************************************)
None == [ok |-> FALSE, text |-> <<>>]
Answer(text) == [ok |-> TRUE, text |-> text]

\* labels of the preset buttons: a plain one and a template
PlainLabel == <<"a">>
TemplateLabel == <<"D", "B", "(", ")">>
Labels == {PlainLabel, TemplateLabel}

\* what simpledialog.askstring returns for the template prompt
PromptAnswers == {None, Answer(<<" ">>), Answer(<<"x", " ">>), Answer(<<"(">>)}

\* what simpledialog.askstring returns for the custom text prompt
CustomAnswers == {None, Answer(<<>>), Answer(<<" ">>),
                  Answer(<<" ", "D", "B", "(", "x", ")">>)}

\* the categories whose panels the user clicks
UsedKinds == {"bull"}

(***************************************************************************)
(* The CSV file the user picks in load_csv: a row for "rth" whose bull     *)
(* cell repeats a line, and a row that holds only the bar cell "0".        *)
(* Reading it either succeeds or raises when the second data row is read.  *)
(***************************************************************************)
CsvRows ==
    <<COLUMNS,
      <<<<"r", "t", "h">>, <<"a", "\n", "a">>, <<>>, <<>>, <<>>>>,
      <<<<"0">>>>>>

CsvFiles == {[rows |-> CsvRows, bad |-> 0], [rows |-> CsvRows, bad |-> 3]}

(***************************************************************************)
(* Bookkeeping shared by the handlers.                                     *)
(***************************************************************************)
TimerIds == 1..3

\* a faulty after_cancel that leaves the callback pending
after_cancel_noop(pending, id) == pending

\* after_cancel(id) on the pending callbacks
after_cancel(pending, id) == pending \ {id}

\* the identifier after() returns: one that no pending callback has
NewTimerId(pending) ==
    CHOOSE id \in TimerIds \ pending : \A other \in TimerIds \ pending : id <= other

\* _schedule_autosave
schedule_autosave ==
    LET pending == after_cancel(timers, autosave_after_id)
    IN  /\ timers' = pending \cup {NewTimerId(pending)}
        /\ autosave_after_id' = NewTimerId(pending)

\* no handle_point_button call waits for its prompt
NoPrompt ==
    [open |-> FALSE, row |-> 0, kind |-> "", text |-> <<>>, bucket |-> <<>>,
     hlen |-> 0]

\* no mutation to remember
NoPre == [data |-> EmptyDict, history |-> <<>>]

\* the handlers that push one history entry when they succeed
Mutations == {"add", "erase", "custom_add", "custom_erase", "add_point",
              "remove_point", "clear_bar", "clear_cell"}

(***************************************************************************)
(* _autosave_path.  The environment it looks at: whether the variable      *)
(* TRADE_JOURNAL_SESSION_PATH is set and to which value, whether the       *)
(* parent directory of that path can be created, and whether the sessions  *)
(* directory next to the module can be created.                            *)
(***************************************************************************)
NoEnv == [set |-> FALSE, value |-> <<>>, env_dir |-> FALSE, project_dir |-> FALSE]

Environs ==
    {e \in [set : BOOLEAN, value : {<<>>, <<"p">>}, env_dir : BOOLEAN,
            project_dir : BOOLEAN] : ~e.set => e.value = <<>>}

\* a faulty resolution that prefers the sessions directory to the variable
autosave_path_project_first(environ) ==
    IF environ.project_dir THEN "project"
    ELSE IF environ.value # <<>> /\ environ.env_dir THEN "env"
    ELSE "temp"

\* _autosave_path: "env" is the path the variable names, "project" is
\* sessions/session.json next to the module, "temp" the file in the temp dir
autosave_path(environ) ==
    IF environ.value # <<>> /\ environ.env_dir THEN "env"
    ELSE IF environ.project_dir THEN "project"
    ELSE "temp"

\* the handler that has run, its arguments and its outcome (env is the
\* environment a path was resolved in, out the rows an export has written): final is the entry
\* an add has tried to append or a removal has taken out, n the number of
\* history entries pushed or rows applied; for an import, text and final are
\* the first and the Bull cell of the last row applied; for an undo, after names the single
\* successful mutation it directly follows, if any
\* the list is not as the entry left it: an add whose text is not the last
\* element any more, a remove whose index lies beyond the end of the list
Stale(d, event) ==
    /\ event.tag \in {"add", "remove"}
    /\ event.bar \in DOMAIN d
    /\ LET bucket == d[event.bar][event.kind]
       IN  IF event.tag = "add"
           THEN bucket = <<>> \/ bucket[Len(bucket)] # event.text
           ELSE event.idx > Len(bucket)

RanWith(op, res, row, kind, text, final, n, save) ==
    /\ last' = [op |-> op, res |-> res, row |-> row, kind |-> kind,
                text |-> text, final |-> final, n |-> n, save |-> save,
                after |-> IF op = "undo" /\ last.n = 1 /\ last.op \in Mutations
                          THEN last.op ELSE "",
                env |-> NoEnv, out |-> <<>>]
    /\ pre' = IF n = 1 /\ (\/ op \in Mutations
                           \/ op = "undo" /\ Stale(data, history[Len(history)]))
              THEN [data |-> data, history |-> history]
              ELSE NoPre
    /\ UNCHANGED <<presets, preset_files, prompt>>

Ran(op, res, row, kind, text, n, save) ==
    RanWith(op, res, row, kind, text, None, n, save)

Idle ==
    [op |-> "start", res |-> "", row |-> 0, kind |-> "", text |-> <<>>,
     final |-> None, n |-> 0, save |-> "none", after |-> "", env |-> NoEnv,
     out |-> <<>>]

\* _save_session_json or _load_session_json asks _autosave_path for the path
\* in the given environment (op is "save_path" or "load_path")
resolve_path(op, environ) ==
    /\ last' = [Idle EXCEPT !.op = op, !.res = autosave_path(environ),
                            !.env = environ]
    /\ pre' = NoPre
    /\ UNCHANGED <<data, history, shift_held, last_selected_row, now, timers,
                   autosave_after_id, disk, presets, preset_files, prompt>>

ResolvePath ==
    \E op \in {"save_path", "load_path"} : \E environ \in Environs :
        resolve_path(op, environ)

\* datetime.now(): the time that has passed since the clock was last read is
\* not known to the program
ReadClock == now' \in now..MaxClock

\* _target_row_index / _target_bar_key
target_row_index == Max(0, Min(Len(BAR_ORDER) - 1, last_selected_row))
target_bar_key == BarAt(target_row_index)

(***************************************************************************)
(* handle_point_button, add_point, remove_point, add_custom_point.         *)
(***************************************************************************)
Outcome(d, h, res, final) ==
    [data |-> d, history |-> h, res |-> res, final |-> final]

\* a faulty duplicate test that never rejects
is_duplicate_never(final_text, bucket) == FALSE

\* handle_point_button line 455: "if final_text in bucket"
is_duplicate(final_text, bucket) == In(final_text, bucket)

\* handle_point_button: the erase branch (Shift held)
erase_point(d, h, bar, kind, text) ==
    LET bucket == d[bar][kind]
    IN  IF is_templated_label(text)
        THEN LET idx == find_latest_templated_match(bucket, button_base(text))
             IN  IF idx = -1 THEN Outcome(d, h, "bell", None)
                 ELSE Outcome(SetBucket(d, bar, kind, PopAt(bucket, idx)),
                              Append(h, RemoveEntry(bar, kind, bucket[idx + 1], idx)),
                              "removed", Answer(bucket[idx + 1]))
        ELSE IF In(text, bucket)
             THEN LET idx == IndexOf(text, bucket)
                  IN  Outcome(SetBucket(d, bar, kind, PopAt(bucket, idx)),
                              Append(h, RemoveEntry(bar, kind, text, idx)),
                              "removed", Answer(text))
             ELSE Outcome(d, h, "bell", None)

\* a faulty add branch that takes a prompt without an answer as empty text
append_point_blank(d, h, bar, kind, text, answer) ==
    LET bucket == d[bar][kind]
        final_text == IF is_templated_label(text)
                      THEN format_templated_entry(text, strip(answer.text))
                      ELSE text
    IN  IF is_duplicate(final_text, bucket)
        THEN Outcome(d, h, "bell", Answer(final_text))
        ELSE Outcome(SetBucket(d, bar, kind, Append(bucket, final_text)),
                     Append(h, AddEntry(bar, kind, final_text)),
                     "added", Answer(final_text))

\* handle_point_button: the add branch; answer is what the prompt returns
append_point(d, h, bar, kind, text, answer) ==
    LET bucket == d[bar][kind]
        templated == is_templated_label(text)
        user_input == strip(answer.text)
        final_text == IF templated THEN format_templated_entry(text, user_input)
                      ELSE text
    IN  IF templated /\ any_templated_for_base_exists(bucket, button_base(text))
        THEN Outcome(d, h, "bell", None)
        ELSE IF templated /\ (~answer.ok \/ user_input = <<>>)
        THEN Outcome(d, h, "cancel", None)
        ELSE IF is_duplicate(final_text, bucket)
        THEN Outcome(d, h, "bell", Answer(final_text))
        ELSE Outcome(SetBucket(d, bar, kind, Append(bucket, final_text)),
                     Append(h, AddEntry(bar, kind, final_text)),
                     "added", Answer(final_text))

\* handle_point_button(kind, text)
handle_point_button_result(d, h, shift, bar, kind, text, answer, t) ==
    LET d1 == ensure_bar_exists(d, bar, t)
    IN  IF shift THEN erase_point(d1, h, bar, kind, text)
        ELSE append_point(d1, h, bar, kind, text, answer)

\* the model explores a handler's result while it stays within the bounds
WithinBounds(r) == Len(r.history) <= MaxHist

\* the state after a handler that ends with refresh_table(select_bar=bar) and
\* _schedule_autosave() when it changed something, and with a bell otherwise
Commit(op, r, row, kind, text) ==
    /\ WithinBounds(r)
    /\ data' = r.data
    /\ history' = r.history
    /\ IF r.res \in {"added", "removed"}
       THEN /\ schedule_autosave
            /\ last_selected_row' = row
            /\ RanWith(op, r.res, row, kind, text, r.final, 1, "scheduled")
       ELSE /\ UNCHANGED <<timers, autosave_after_id, last_selected_row>>
            /\ RanWith(op, r.res, row, kind, text, r.final, 0, "none")
    /\ UNCHANGED <<shift_held, now, disk>>

handle_point_button(kind, text, answer) ==
    Commit(IF shift_held THEN "erase" ELSE "add",
           handle_point_button_result(data, history, shift_held, target_bar_key,
                                      kind, text, answer, now),
           target_row_index, kind, text)

ButtonPress ==
    \E kind \in UsedKinds : \E text \in Labels : \E answer \in PromptAnswers :
        handle_point_button(kind, text, answer)

\* add_custom_point(kind): text is what the prompt returns
add_custom_point(kind, text) ==
    /\ text.ok /\ text.text # <<>>
    /\ Commit(IF shift_held THEN "custom_erase" ELSE "custom_add",
              handle_point_button_result(data, history, shift_held, target_bar_key,
                                         kind, strip(text.text), None, now),
              target_row_index, kind, strip(text.text))

\* add_custom_point when the prompt is cancelled or left empty
add_custom_point_cancel(kind, text) ==
    /\ ~(text.ok /\ text.text # <<>>)
    /\ Ran("custom_add", "cancel", target_row_index, kind, text.text, 0, "none")
    /\ UNCHANGED <<data, history, shift_held, last_selected_row, now, timers,
                   autosave_after_id, disk>>

CustomPoint ==
    \E kind \in UsedKinds : \E text \in CustomAnswers :
        \/ add_custom_point(kind, text)
        \/ add_custom_point_cancel(kind, text)

\* a faulty add_point that also records the add it rejects
add_point_result_logging(d, h, bar, kind, text, t) ==
    LET d1 == ensure_bar_exists(d, bar, t)
        bucket == d1[bar][kind]
    IN  IF ~In(text, bucket)
        THEN Outcome(SetBucket(d1, bar, kind, Append(bucket, text)),
                     Append(h, AddEntry(bar, kind, text)), "added", Answer(text))
        ELSE Outcome(d1, Append(h, AddEntry(bar, kind, text)), "bell", Answer(text))

\* add_point(kind, text)
add_point_result(d, h, bar, kind, text, t) ==
    LET d1 == ensure_bar_exists(d, bar, t)
        bucket == d1[bar][kind]
    IN  IF ~In(text, bucket)
        THEN Outcome(SetBucket(d1, bar, kind, Append(bucket, text)),
                     Append(h, AddEntry(bar, kind, text)), "added", Answer(text))
        ELSE Outcome(d1, h, "bell", Answer(text))

add_point(kind, text) ==
    Commit("add_point",
           add_point_result(data, history, target_bar_key, kind, text, now),
           target_row_index, kind, text)

\* remove_point(kind, text)
remove_point_result(d, h, bar, kind, text, t) ==
    LET d1 == ensure_bar_exists(d, bar, t)
        bucket == d1[bar][kind]
    IN  IF In(text, bucket)
        THEN LET idx == IndexOf(text, bucket)
             IN  Outcome(SetBucket(d1, bar, kind, PopAt(bucket, idx)),
                         Append(h, RemoveEntry(bar, kind, text, idx)), "removed",
                         Answer(text))
        ELSE Outcome(d1, h, "bell", None)

remove_point(kind, text) ==
    Commit("remove_point",
           remove_point_result(data, history, target_bar_key, kind, text, now),
           target_row_index, kind, text)

PointHelpers ==
    \E kind \in UsedKinds : \E text \in {PlainLabel} :
        \/ add_point(kind, text)
        \/ remove_point(kind, text)

(***************************************************************************)
(* clear_current_bar, the Delete key, undo_last, new_session.              *)
(***************************************************************************)
clear_current_bar ==
    LET bar == target_bar_key
    IN  /\ Len(history) < MaxHist
        /\ ReadClock
        /\ IF bar \in DOMAIN data
           THEN /\ history' = Append(history, ClearBarEntry(bar, data[bar]))
                /\ data' = [data EXCEPT ![bar] = NewRecord(now')]
                /\ schedule_autosave
                /\ last_selected_row' = target_row_index
                /\ Ran("clear_bar", "cleared", target_row_index, "", <<>>, 1,
                       "scheduled")
           ELSE /\ UNCHANGED <<data, history, timers, autosave_after_id,
                               last_selected_row>>
                /\ Ran("clear_bar", "none", target_row_index, "", <<>>, 0, "none")
        /\ UNCHANGED <<shift_held, disk>>

\* _on_delete_key: the loop over the selected cells, from cell i on
RECURSIVE delete_cells(_, _, _, _, _)
delete_cells(d, h, cells, i, t) ==
    IF i > Len(cells) THEN [data |-> d, history |-> h]
    ELSE LET r == cells[i][1]
             c == cells[i][2]
         IN  IF \/ \E j \in 1..(i - 1) : cells[j] = cells[i]
                \/ c \notin DOMAIN KINDS_BY_COL
                \/ r < 0 \/ r >= Len(BAR_ORDER)
             THEN delete_cells(d, h, cells, i + 1, t)
             ELSE LET bar_key == BarAt(r)
                      kind == KINDS_BY_COL[c]
                      d1 == ensure_bar_exists(d, bar_key, t)
                      bucket == d1[bar_key][kind]
                  IN  IF bucket = <<>> THEN delete_cells(d1, h, cells, i + 1, t)
                      ELSE delete_cells(
                               SetBucket(d1, bar_key, kind, <<>>),
                               Append(h, ClearCellEntry(bar_key, kind, bucket)),
                               cells, i + 1, t)

\* the cells the sheet reports as selected when Delete is pressed
DeleteSelections ==
    {<<>>, <<<<0, 1>>, <<0, 2>>>>}
    \cup {<<<<r, c>>>> : r \in 0..MaxRow, c \in 0..1}

on_delete_key(cells) ==
    LET r == delete_cells(data, history, cells, 1, now)
        n == Len(r.history) - Len(history)
    IN  /\ Len(r.history) <= MaxHist
        /\ data' = r.data
        /\ history' = r.history
        /\ IF n > 0
           THEN /\ schedule_autosave
                /\ Ran("clear_cell", "cleared", last_selected_row, "", <<>>, n,
                       "scheduled")
           ELSE /\ UNCHANGED <<timers, autosave_after_id>>
                /\ Ran("clear_cell", "bell", last_selected_row, "", <<>>, 0, "none")
        /\ UNCHANGED <<shift_held, last_selected_row, now, disk>>

DeleteKey == \E cells \in DeleteSelections : on_delete_key(cells)

\* a faulty undo_last that requests a save although there was nothing to undo
undo_last_saving ==
    IF history = <<>>
    THEN /\ Ran("undo", "nothing", last_selected_row, "", <<>>, 0, "none")
         /\ schedule_autosave
         /\ UNCHANGED <<data, history, shift_held, last_selected_row, now, disk>>
    ELSE /\ history' = SubSeq(history, 1, Len(history) - 1)
         /\ data' = undo_event(data, history[Len(history)])
         /\ schedule_autosave
         /\ Ran("undo", "undone", last_selected_row, "", <<>>, 1, "scheduled")
         /\ UNCHANGED <<shift_held, last_selected_row, now, disk>>

\* undo_last

undo_last ==
    IF history = <<>>
    THEN /\ Ran("undo", "nothing", last_selected_row, "", <<>>, 0, "none")
         /\ UNCHANGED <<data, history, shift_held, last_selected_row, now, timers,
                        autosave_after_id, disk>>
    ELSE /\ history' = SubSeq(history, 1, Len(history) - 1)
         /\ data' = undo_event(data, history[Len(history)])
         /\ schedule_autosave
         /\ Ran("undo", "undone", last_selected_row, "", <<>>, 1, "scheduled")
         /\ UNCHANGED <<shift_held, last_selected_row, now, disk>>

\* a faulty new_session that keeps the undo history
new_session_keeping(outcome) ==
    /\ ReadClock
    /\ data' = EnsureAll(EmptyDict, now')
    /\ history' = history
    /\ last_selected_row' = 0
    /\ disk' = save_session_json(disk, data', outcome)
    /\ Ran("new_session", "reset", 0, "", <<>>, 0, "saved")
    /\ UNCHANGED <<shift_held, timers, autosave_after_id>>

\* new_session once the user has confirmed; outcome is that of the write
new_session(outcome) ==
    /\ ReadClock
    /\ data' = EnsureAll(EmptyDict, now')
    /\ history' = <<>>
    /\ last_selected_row' = 0
    /\ disk' = save_session_json(disk, data', outcome)
    /\ Ran("new_session", "reset", 0, "", <<>>, 0, "saved")
    /\ UNCHANGED <<shift_held, timers, autosave_after_id>>

NewSession == \E outcome \in WriteOutcomes : new_session(outcome)

(***************************************************************************)
(* load_csv and save_csv.                                                  *)
(***************************************************************************)
\* the cell of the last row load_csv has applied, i the 0-based cell index
AppliedCell(file, i) ==
    LET row == IF RowsApplied(file) = 0 THEN <<>>
               ELSE file.rows[1 + RowsApplied(file)]
    IN  IF i < Len(row) THEN Answer(row[i + 1]) ELSE None

\* load_csv has run with this file: its rows, the first and the Bull cell of
\* the last row it applied, and the number of rows it applied are remembered
RanImport(file, res, row, save) ==
    /\ last' = [Idle EXCEPT
                  !.op = "load_csv", !.res = res, !.row = row,
                  !.text = AppliedCell(file, 0).text,
                  !.final = AppliedCell(file, 1),
                  !.n = RowsApplied(file), !.save = save, !.out = file.rows]
    /\ pre' = NoPre
    /\ UNCHANGED <<presets, preset_files, prompt>>

\* load_csv with the chosen file
load_csv(file) ==
    /\ data' = load_csv_data(data, file, now)
    /\ IF LoadFails(file)
       THEN /\ RanImport(file, "failed", last_selected_row, "none")
            /\ UNCHANGED <<history, last_selected_row, timers, autosave_after_id>>
       ELSE /\ history' = <<>>
            /\ last_selected_row' = 0
            /\ schedule_autosave
            /\ RanImport(file, "loaded", 0, "scheduled")
    /\ UNCHANGED <<shift_held, now, disk>>

\* the user imports one of the files
LoadCsv == \E file \in CsvFiles : load_csv(file)

\* save_csv: path is what asksaveasfilename returns, outcome that of open()
\* and of the writes; nothing catches what they raise
save_csv(path, outcome) ==
    /\ LET res == IF DOMAIN data = {} THEN "nothing"
                  ELSE IF ~path.ok \/ path.text = <<>> THEN "cancelled"
                  ELSE IF outcome = "ok" THEN "saved"
                  ELSE "raised"
       IN  last' = [Idle EXCEPT
                      !.op = "save_csv", !.res = res, !.row = last_selected_row,
                      !.out = IF res = "saved" THEN save_csv_rows(data) ELSE <<>>]
    /\ pre' = NoPre
    /\ UNCHANGED <<data, history, shift_held, last_selected_row, now, timers,
                   autosave_after_id, disk, presets, preset_files, prompt>>

\* the user exports: the dialog is cancelled or a path is chosen
SaveCsv ==
    \E path \in {None, Answer(<<"f">>)} :
        \E outcome \in WriteOutcomes : save_csv(path, outcome)

(***************************************************************************)
(* The environment: Shift key, row selection, timer, restart.              *)
(***************************************************************************)
\* _set_shift
set_shift(val) ==
    /\ shift_held # val
    /\ shift_held' = val
    /\ UNCHANGED <<data, history, last_selected_row, now, timers,
                   autosave_after_id, disk, last, pre, presets, preset_files, prompt>>

SetShift == \E val \in BOOLEAN : set_shift(val)

\* a faulty _select_row that takes the row as it is given
select_row_unclamped(row_index) ==
    /\ last_selected_row' = row_index
    /\ last_selected_row' # last_selected_row
    /\ UNCHANGED <<data, history, shift_held, now, timers, autosave_after_id,
                   disk, last, pre, presets, preset_files, prompt>>

\* _select_row, reached from a click on the sheet
select_row(row_index) ==
    /\ last_selected_row' = Max(0, Min(Len(BAR_ORDER) - 1, row_index))
    /\ last_selected_row' # last_selected_row
    /\ UNCHANGED <<data, history, shift_held, now, timers, autosave_after_id,
                   disk, last, pre, presets, preset_files, prompt>>

SelectRow == \E row_index \in 0..MaxRow : select_row(row_index)

\* a faulty callback whose failing write also drops the undo history
timer_fires_dropping(id, outcome) ==
    /\ id \in timers
    /\ timers' = timers \ {id}
    /\ disk' = save_session_json(disk, data, outcome)
    /\ history' = IF outcome = "ok" THEN history ELSE <<>>
    /\ UNCHANGED <<data, shift_held, last_selected_row, now,
                   autosave_after_id, last, pre, presets, preset_files, prompt>>

\* the after() callback fires: _save_session_json
\* a faulty callback that writes the session as it was when the change that
\* requested the save began
timer_fires_snapshot(id, outcome) ==
    /\ id \in timers
    /\ timers' = timers \ {id}
    /\ disk' = save_session_json(disk, IF pre = NoPre THEN data ELSE pre.data,
                                 outcome)
    /\ UNCHANGED <<data, history, shift_held, last_selected_row, now,
                   autosave_after_id, last, pre, presets, preset_files, prompt>>

timer_fires(id, outcome) ==
    /\ id \in timers
    /\ timers' = timers \ {id}
    /\ disk' = save_session_json(disk, data, outcome)
    /\ UNCHANGED <<data, history, shift_held, last_selected_row, now,
                   autosave_after_id, last, pre, presets, preset_files, prompt>>

TimerFires == \E id \in TimerIds : \E outcome \in WriteOutcomes : timer_fires(id, outcome)

\* JournalApp.__init__: self.data after the constructor
init_data(dsk, t) == load_session_json(EnsureAll(EmptyDict, t), dsk)

\* the application is closed and started again
Restart ==
    /\ ReadClock
    /\ data' = init_data(disk, now')
    /\ history' = <<>>
    /\ shift_held' = FALSE
    /\ last_selected_row' = 0
    /\ timers' = {}
    /\ autosave_after_id' = 0
    /\ last' = Idle
    /\ pre' = NoPre
    /\ presets' = StartPresets(preset_files)
    /\ prompt' = NoPrompt
    /\ UNCHANGED <<disk, preset_files>>

(***************************************************************************)
(* handle_point_button around its modal prompt.  The handler reads         *)
(* bucket = self.data[bar][kind] and opens askstring; the bind_all key     *)
(* callbacks (Delete, Up, Down) run while the prompt waits; the handler    *)
(* then goes on with the bar, the kind and the list object it has read.    *)
(***************************************************************************)
\* prev_bar and next_bar: _select_row(idx - 1), _select_row(idx + 1)
prev_bar == select_row(target_row_index - 1)
next_bar == select_row(target_row_index + 1)

ArrowKey == prev_bar \/ next_bar

\* handle_point_button up to askstring: a template button is clicked with
\* Shift up and no entry of its base is in the list
open_prompt(kind, text) ==
    LET bar == target_bar_key
        d1 == ensure_bar_exists(data, bar, now)
        bucket == d1[bar][kind]
    IN  /\ ~prompt.open
        /\ ~shift_held
        /\ is_templated_label(text)
        /\ ~any_templated_for_base_exists(bucket, button_base(text))
        /\ data' = d1
        /\ prompt' = [open |-> TRUE, row |-> target_row_index, kind |-> kind,
                      text |-> text, bucket |-> bucket, hlen |-> Len(history)]
        /\ last' = [Idle EXCEPT !.op = "prompt", !.row = target_row_index,
                                !.kind = kind, !.text = text]
        /\ pre' = NoPre
        /\ UNCHANGED <<history, shift_held, last_selected_row, now, timers,
                       autosave_after_id, disk, presets, preset_files>>

OpenPrompt == \E kind \in UsedKinds : open_prompt(kind, TemplateLabel)

\* whether self.data[bar][kind] was bound to a new list while the prompt
\* waited: _on_delete_key does so exactly when it pushes a clear-category
\* entry for the cell
Rebound ==
    \E i \in (prompt.hlen + 1)..Len(history) :
        /\ history[i].tag = "clear_cell"
        /\ history[i].bar = BarAt(prompt.row)
        /\ history[i].kind = prompt.kind

\* the contents of the list object the handler holds: the list of self.data,
\* or the list that was taken out of self.data
prompt_bucket ==
    IF Rebound THEN prompt.bucket ELSE data[BarAt(prompt.row)][prompt.kind]

\* handle_point_button from the return of askstring on
close_prompt(answer) ==
    LET bar == BarAt(prompt.row)
        kind == prompt.kind
        user_input == strip(answer.text)
        final_text == format_templated_entry(prompt.text, user_input)
        res == IF ~answer.ok \/ user_input = <<>> THEN "cancel"
               ELSE IF is_duplicate(final_text, prompt_bucket) THEN "bell"
               ELSE "added"
    IN  /\ prompt.open
        /\ prompt' = NoPrompt
        /\ IF res = "added"
           THEN /\ Len(history) < MaxHist
                /\ data' = IF Rebound THEN data
                           ELSE SetBucket(data, bar, kind,
                                          Append(prompt_bucket, final_text))
                /\ history' = Append(history, AddEntry(bar, kind, final_text))
                /\ schedule_autosave
                /\ last_selected_row' = prompt.row
                /\ pre' = [data |-> data, history |-> history]
           ELSE /\ pre' = NoPre
                /\ UNCHANGED <<data, history, timers, autosave_after_id,
                               last_selected_row>>
        /\ last' = [Idle EXCEPT
                      !.op = "add", !.res = res, !.row = prompt.row,
                      !.kind = kind, !.text = prompt.text,
                      !.final = IF res = "cancel" THEN None ELSE Answer(final_text),
                      !.n = IF res = "added" THEN 1 ELSE 0,
                      !.save = IF res = "added" THEN "scheduled" ELSE "none"]
        /\ UNCHANGED <<shift_held, now, disk, presets, preset_files>>

ClosePrompt == \E answer \in PromptAnswers : close_prompt(answer)

\* what the preset editor returns: nothing when it is cancelled, or the list
\* the user has typed
EditorResults == {[ok |-> FALSE, list |-> <<>>], [ok |-> TRUE, list |-> << <<"x">> >>]}

\* _open_preset_editor(kind): the dialog's result replaces the list, and
\* _save_presets writes the four lists
open_preset_editor(kind, result, outcome) ==
    /\ last' = [Idle EXCEPT !.op = "edit_presets", !.kind = kind,
                            !.res = IF result.ok THEN "updated" ELSE "cancelled"]
    /\ pre' = NoPre
    /\ presets' = IF result.ok THEN [presets EXCEPT ![kind] = result.list]
                  ELSE presets
    /\ preset_files' =
         IF result.ok
         THEN [preset_files EXCEPT
                 !.cwd = save_presets(presets', preset_files.cwd, outcome)]
         ELSE preset_files
    /\ UNCHANGED <<data, history, shift_held, last_selected_row, now, timers,
                   autosave_after_id, disk, prompt>>

\* the categories whose list is edited
EditedKinds == {"bull", "tr"}

EditPresets ==
    \E kind \in EditedKinds : \E result \in EditorResults :
        \E outcome \in WriteOutcomes : open_preset_editor(kind, result, outcome)

\* a session an earlier run has saved: RTH holds two bull entries
SavedSession ==
    [EnsureAll(EmptyDict, 0) EXCEPT
        ![StrKey("RTH")].bull = <<PlainLabel, <<"D", "B", "(", "y", ")">>>>]

\* the autosave file found at the first start
InitialFiles == {AbsentFile, [state |-> "ok", obj |-> ToJson(SavedSession)]}

Init ==
    /\ disk \in InitialFiles
    /\ now = 0
    /\ data = init_data(disk, now)
    /\ history = <<>>
    /\ shift_held = FALSE
    /\ last_selected_row = 0
    /\ timers = {}
    /\ autosave_after_id = 0
    /\ last = Idle
    /\ pre = NoPre
    /\ preset_files = NoPresetFiles
    /\ presets = StartPresets(preset_files)
    /\ prompt = NoPrompt

\* the buttons of the panels, the helper methods and undo, on the bar that is
\* selected at the start
Next ==
    \/ ButtonPress
    \/ CustomPoint
    \/ PointHelpers
    \/ undo_last
    \/ SetShift

Spec == Init /\ [][Next]_vars

\* every kind of handler that pushes a history entry, on the bars the user
\* selects, and undo
NextUndo ==
    \/ ButtonPress /\ Len(history') <= MaxUndoHist
    \/ PointHelpers /\ Len(history') <= MaxUndoHist
    \/ clear_current_bar /\ Len(history') <= MaxUndoHist
    \/ DeleteKey /\ Len(history') <= MaxUndoHist
    \/ undo_last
    \/ SetShift
    \/ SelectRow

SpecUndo == Init /\ [][NextUndo]_vars

\* the session's life cycle: reset, autosave writes, restart with the load of
\* the autosave file, import, the helper methods and undo
NextLife ==
    \/ PointHelpers /\ Len(history') <= MaxLifeHist
    \/ undo_last
    \/ NewSession
    \/ LoadCsv
    \/ TimerFires
    \/ Restart

SpecLife == Init /\ [][NextLife]_vars

\* the after() callback fires and the write succeeds
TimerWrites == \E id \in TimerIds : timer_fires(id, "ok")

\* the session's life with writes that succeed: Tk's event loop runs every
\* callback that stays pending
NextLive ==
    \/ PointHelpers /\ Len(history') <= MaxLifeHist
    \/ undo_last
    \/ new_session("ok")
    \/ LoadCsv
    \/ TimerWrites

SpecLive == Init /\ [][NextLive]_vars /\ WF_vars(TimerWrites)

\* the first cells of the rows the user imports
FirstCells ==
    {<<"R", "T", "H">>, <<"r", "t", "h">>, <<" ", "e", "T", "h">>, <<"5">>,
     <<"5", " ">>, <<"0">>, <<"-", "3">>, <<"+", "9", "9">>, <<>>, <<"5", "a">>}

\* their Bull cells: two entries, an entry between blank lines, nothing
BullCells ==
    {<<"a", "b", "o", "v", "e", " ", "E", "M", "A", "\n", "D", "B", "(", "x", ")">>,
     <<" ", "\n", "a", "\n", "\n">>, <<>>}

\* CSV files with one data row: the five cells, or the first two only
ImportFiles ==
    {[rows |-> <<COLUMNS, <<cell, bull, <<>>, <<>>, <<>>>>>>, bad |-> 0] :
        cell \in FirstCells, bull \in BullCells}
    \cup {[rows |-> <<COLUMNS, <<cell, bull>>>>, bad |-> 0] :
        cell \in {<<"5">>}, bull \in BullCells}

\* the user imports one of these files
ImportRow == \E file \in ImportFiles : load_csv(file)

\* a run of the application in which the user imports one file
NextImport ==
    \/ ImportRow /\ last.op = "start"
    \/ TimerFires

SpecImport == Init /\ [][NextImport]_vars

\* export and import around the helper methods, undo and the autosave writes
NextCsv ==
    \/ SaveCsv
    \/ LoadCsv
    \/ PointHelpers /\ Len(history') <= MaxLifeHist
    \/ undo_last
    \/ TimerFires

SpecCsv == Init /\ [][NextCsv]_vars

\* the Delete key on the cells of the first two rows, around the helper
\* methods, clear_current_bar and undo on the bar selected at the start
NextDelete ==
    \/ DeleteKey
    \/ PointHelpers
    \/ clear_current_bar
    \/ undo_last

SpecDelete == Init /\ [][NextDelete]_vars

\* the path resolutions of saves and loads around the helper methods and undo
NextPath ==
    \/ ResolvePath
    \/ PointHelpers
    \/ undo_last

SpecPath == Init /\ [][NextPath]_vars

\* a presets.json edited by hand: bull is a list with a number in it, bear is
\* not a list, tr_points is a list, and the other keys are missing
EditedPresets ==
    [state |-> "ok",
     obj |-> [NoPresets EXCEPT
                !["bull"] = JsonArray(<< <<"y">>, NumberItem >>),
                !["bear"] = JsonString(0),
                !["tr_points"] = JsonArray(<< <<"z">> >>)]]

\* a presets.json with lists of strings under the keys bull and bias
PlainPresets ==
    [state |-> "ok",
     obj |-> [NoPresets EXCEPT
                !["bull"] = JsonArray(<< <<"y">> >>),
                !["bias"] = JsonArray(<<>>)]]

\* the presets.json files a start can find
PresetFiles == {AbsentPresets, CorruptPresets, ArrayPresets, EditedPresets, PlainPresets}

PresetConfigs ==
    {pf \in [same : BOOLEAN, module : PresetFiles,
             parent : {AbsentPresets, PlainPresets}, cwd : PresetFiles] :
        pf.same => pf.module = AbsentPresets}

\* a start that finds any of these files
InitPresets ==
    /\ disk = AbsentFile
    /\ now = 0
    /\ data = init_data(disk, now)
    /\ history = <<>>
    /\ shift_held = FALSE
    /\ last_selected_row = 0
    /\ timers = {}
    /\ autosave_after_id = 0
    /\ last = Idle
    /\ pre = NoPre
    /\ preset_files \in PresetConfigs
    /\ presets = StartPresets(preset_files)
    /\ prompt = NoPrompt

\* the preset editor and the restarts of the application
NextPresets ==
    \/ EditPresets
    \/ Restart

SpecPresets == InitPresets /\ [][NextPresets]_vars

\* CSV files whose reading raises after the row for "rth" has been applied:
\* the row's bull cell holds two lines, one line, or nothing
StaleFiles ==
    {[rows |-> <<COLUMNS, <<<<"r", "t", "h">>, cell>>, <<<<"0">>>>>>, bad |-> 3] :
        cell \in {<<"x", "\n", "a">>, <<"x">>, <<>>}}

\* the point helpers and undo around imports that fail half way, which
\* change self.data and keep the history
NextStale ==
    \/ PointHelpers /\ Len(history') <= MaxLifeHist
    \/ undo_last
    \/ \E file \in StaleFiles : load_csv(file)
    \/ TimerFires

SpecStale == Init /\ [][NextStale]_vars

\* a template button whose prompt waits while the Delete and arrow keys are
\* pressed; the helper methods and undo run while no prompt is open
NextPrompt ==
    \/ OpenPrompt
    \/ ClosePrompt
    \/ DeleteKey
    \/ ArrowKey /\ last_selected_row' <= MaxRow
    \/ ~prompt.open /\ PointHelpers
    \/ ~prompt.open /\ undo_last

SpecPrompt == Init /\ [][NextPrompt]_vars

\* the helper methods, the clears, undo, and imports
NextFrame ==
    \/ NextDelete /\ Len(history') <= MaxLifeHist
    \/ LoadCsv

SpecFrame == Init /\ [][NextFrame]_vars

\* the rows the sheet reports as selected: the first row, the row before the
\* last, and a row beyond either end
ReportedRows == {-1, 0, Len(BAR_ORDER) - 2, Len(BAR_ORDER)}

\* _on_sheet_select: the reported row becomes _click_row and
\* _last_selected_row as it is; last.n tells a report from the one before it
on_sheet_select(row) ==
    /\ last_selected_row' = row
    /\ last' = [Idle EXCEPT !.op = "select", !.row = row,
                            !.n = IF last.op = "select" THEN 1 - last.n ELSE 0]
    /\ pre' = NoPre
    /\ UNCHANGED <<data, history, shift_held, now, timers, autosave_after_id,
                   disk, presets, preset_files, prompt>>

OnSheetSelect == \E row \in ReportedRows : on_sheet_select(row)

\* rows within MaxRow of either end of the sheet
NearEnd(row) == row <= MaxRow \/ row >= Len(BAR_ORDER) - 1 - MaxRow

\* the selection is moved by the sheet and by the Up and Down keys near both
\* ends of the sheet, and add_point / remove_point act on the targeted bar
NextRow ==
    \/ OnSheetSelect
    \/ prev_bar /\ NearEnd(last_selected_row')
    \/ next_bar /\ NearEnd(last_selected_row')
    \/ PointHelpers /\ Len(history') <= MaxLifeHist
    \/ TimerFires

SpecRow == Init /\ [][NextRow]_vars

\* rows of CSV files: numbers beyond both ends of the range and inside it, a
\* cell that is no key, "ETH", and an empty row
MergeRows ==
    {<<<<"9", "9">>, <<"p">>>>, <<<<"8", "1">>, <<"q">>>>, <<<<"0">>, <<"t">>>>,
     <<<<"1">>, <<"u">>>>, <<<<"z", "z">>, <<"r">>>>, <<<<"E", "T", "H">>, <<"s">>>>,
     <<>>}

\* CSV files with two rows after the first one, which is the header the
\* program writes or a row that looks like data
MergeFiles ==
    {[rows |-> <<first, r1, r2>>, bad |-> 0] :
        first \in {COLUMNS, <<<<"5">>, <<"h">>>>}, r1 \in MergeRows, r2 \in MergeRows}

\* one import of such a file into the session the start has found, and the
\* autosave writes
NextMerge ==
    \/ last.op = "start" /\ \E file \in MergeFiles : load_csv(file)
    \/ TimerFires

SpecMerge == Init /\ [][NextMerge]_vars

\* an autosave file edited by hand: RTH has a number as ts, a list of strings
\* as bull, a list holding a number as bear, a string as tr, no bias and a
\* field the program does not know; ETH is not an object; bar 1 is a complete
\* record; "x" is no bar
EditedFile ==
    [state |-> "ok",
     obj |-> [k \in {str(StrKey("RTH")), str(StrKey("ETH")), str(IntKey(1)), <<"x">>} |->
                CASE k = str(StrKey("RTH")) ->
                       [dict |-> TRUE, ts |-> JsonNumber,
                        bull |-> JsonArray(<<PlainLabel>>),
                        bear |-> JsonArray(<<NumberItem>>),
                        tr |-> JsonString(0), bias |-> JsonMissing,
                        note |-> JsonString(0)]
                  [] k = str(StrKey("ETH")) ->
                       [JsonRecord(NewRecord(0)) EXCEPT !.dict = FALSE]
                  [] OTHER ->
                       JsonRecord([NewRecord(0) EXCEPT !.tr = <<PlainLabel>>])]]

\* the autosave files a start can find
FoundFiles == InitialFiles \cup {CorruptFile, ArrayFile, EditedFile}

\* a start that finds any of these files
InitLoad ==
    /\ disk \in FoundFiles
    /\ now = 0
    /\ data = init_data(disk, now)
    /\ history = <<>>
    /\ shift_held = FALSE
    /\ last_selected_row = 0
    /\ timers = {}
    /\ autosave_after_id = 0
    /\ last = Idle
    /\ pre = NoPre
    /\ preset_files = NoPresetFiles
    /\ presets = StartPresets(preset_files)
    /\ prompt = NoPrompt

\* starts and restarts of the application around the helper methods and the
\* autosave writes
NextLoad ==
    \/ PointHelpers /\ Len(history') <= MaxLifeHist
    \/ TimerFires
    \/ Restart

SpecLoad == InitLoad /\ [][NextLoad]_vars

TypeOK ==
    /\ DOMAIN data \subseteq BarKeys
    /\ Len(history) <= MaxHist
    /\ timers \subseteq TimerIds

(***************************************************************************)
(* Properties of the session store.  In an action property, last is the    *)
(* handler that ran before the step and last' the handler the step runs;   *)
(* a step in which a handler runs changes last, except when the same       *)
(* rejected call is repeated, which changes nothing at all.                *)
(***************************************************************************)
\* the handlers that add an entry, and those that remove one
AddOps == {"add", "custom_add", "add_point"}
RemoveOps == {"erase", "custom_erase", "remove_point"}

\* the list the handler that ran last worked on, as it is now
LastList == data[BarAt(last.row)][last.kind]

\* the list an add that ran last found: the list before a successful add, and
\* the unchanged list after a rejected one
PriorList ==
    IF last.res = "added" THEN pre.data[BarAt(last.row)][last.kind] ELSE LastList

\* C1: undo_last called immediately after a single successful mutation (an add,
\* a plain or templated remove, clear_current_bar, a Delete-key clear of one
\* cell) makes self.data equal to the session before the mutation, timestamps
\* included, and returns the history to its content before the mutation.
UndoRestoresMutation ==
    [][(last.op \in Mutations /\ last.n = 1 /\ last'.op = "undo")
       => (data' = pre.data /\ history' = pre.history)]_vars

\* C1: a cleared bar has been brought back by undo with its entries and with a
\* timestamp older than the clock.
UndoneClearBar ==
    /\ last.op = "undo" /\ last.after = "clear_bar"
    /\ data[BarAt(last.row)].bull # <<>>
    /\ data[BarAt(last.row)].ts < now
    /\ history = <<>>

\* C2: in every reachable state, each of the four category lists of every bar
\* holds no text twice.
NoDuplicateEntries ==
    \A bar \in DOMAIN data : \A kind \in KindSet :
        \A i, j \in 1..Len(data[bar][kind]) :
            i # j => data[bar][kind][i] # data[bar][kind][j]

\* C3: an add of a text t to a list that already contains t verbatim changes
\* neither self.data nor the history.
DuplicateAddChangesNothing ==
    [][(/\ last' # last
        /\ last'.op \in AddOps
        /\ last'.final.ok
        /\ In(last'.final.text, data[BarAt(last'.row)][last'.kind]))
       => (data' = data /\ history' = history)]_vars

\* C3: an add has been rejected because its text is in the list, after earlier
\* mutations.
DuplicateAddRejected ==
    /\ last.op \in AddOps /\ last.res = "bell"
    /\ last.final.ok
    /\ In(last.final.text, LastList)
    /\ history # <<>>

\* C4 as claimed: for every prior content of the list, an add of t followed by
\* the removal of t (same bar, category and text) leaves the list with its
\* prior content.
AddThenRemoveRestoresList ==
    [][(/\ last.op \in AddOps /\ last.final.ok
        /\ last'.op \in RemoveOps
        /\ last'.row = last.row /\ last'.kind = last.kind
        /\ last'.text = last.text)
       => data'[BarAt(last.row)][last.kind] = PriorList]_vars

\* C4 amended: when t holds no "()" and is not in the list, an add of t
\* followed by the removal of t succeeds and leaves the list with exactly its
\* prior content in its prior order.
AddThenRemoveRestoresFreshText ==
    [][(/\ last.op \in AddOps /\ last.final.ok
        /\ ~is_templated_label(last.text)
        /\ ~In(last.text, PriorList)
        /\ last'.op \in RemoveOps
        /\ last'.row = last.row /\ last'.kind = last.kind
        /\ last'.text = last.text)
       => /\ last'.res = "removed"
          /\ data'[BarAt(last.row)][last.kind] = PriorList]_vars

\* C4: a text has been removed from a list that was not empty before the text
\* was added, and the add is the entry on top of the history the removal found.
RemovedWhatWasJustAdded ==
    /\ last.op \in RemoveOps /\ last.res = "removed"
    /\ ~is_templated_label(last.text)
    /\ pre.history # <<>>
    /\ LET e == pre.history[Len(pre.history)]
       IN  /\ e.tag = "add" /\ e.text = last.text
           /\ e.bar = BarAt(last.row) /\ e.kind = last.kind
    /\ LastList # <<>>

\* C5: in every reachable state the key set of self.data is exactly the 83
\* keys of BAR_ORDER, and _ensure_bar_exists on any of them changes nothing.
KeySetIsBarOrder ==
    /\ DOMAIN data = BarKeys
    /\ Cardinality(DOMAIN data) = LastBar + 2
    /\ \A key \in BarKeys : ensure_bar_exists(data, key, now) = data

\* C5: a CSV import with a bar cell outside 1..81 has completed.
ImportedOutOfRangeBar ==
    /\ last.op = "load_csv" /\ last.res = "loaded"
    /\ \E i \in 2..Len(CsvRows) : strip(CsvRows[i][1]) = <<"0">>
    /\ data[IntKey(1)].bull = <<>>

\* C6: exporting the session with save_csv and importing the produced file
\* with load_csv yields for every bar and category the list before export.
CsvRoundTrip ==
    LET rows == save_csv_rows(data)
        back == load_csv_rows(data, rows, Len(rows), now)
    IN  \A bar \in BarKeys : \A kind \in KindSet :
            back[bar][kind] = data[bar][kind]

\* C7: whenever load_csv has overwritten the lists of at least one bar, the
\* history is empty when it returns.
ImportClearsHistory ==
    (last.op = "load_csv" /\ last.n >= 1) => history = <<>>

\* C8: while a list holds an entry base(suffix) of a template base, an add
\* through handle_point_button that would produce another entry of that base
\* with a different suffix leaves list and history unchanged, whether a
\* template button or an already expanded custom text supplies it.
SecondTemplatedAddRejected ==
    [][(/\ last' # last
        /\ last'.op \in {"add", "custom_add"}
        /\ last'.final.ok
        /\ \E label \in {l \in Labels : is_templated_label(l)} :
               /\ PatternMatch(button_base(label), last'.final.text)
               /\ \E i \in 1..Len(data[BarAt(last'.row)][last'.kind]) :
                      LET entry == data[BarAt(last'.row)][last'.kind][i]
                      IN  /\ PatternMatch(button_base(label), entry)
                          /\ entry # last'.final.text)
       => (data' = data /\ history' = history)]_vars

\* C9: a Shift-click on a template label, when the list holds entries that
\* _format_templated_entry made from that label with some suffix, removes the
\* one at the highest index and pushes a remove entry with its text and index.
TemplateEraseFindsEntry ==
    [][(/\ last' # last
        /\ last'.op = "erase"
        /\ is_templated_label(last'.text)
        /\ \E i \in 1..Len(data[BarAt(last'.row)][last'.kind]) :
               \E s \in {<<"x">>, <<"y">>, <<"(">>} :
                   data[BarAt(last'.row)][last'.kind][i]
                       = format_templated_entry(last'.text, s))
       => LET bar == BarAt(last'.row)
              bucket == data[bar][last'.kind]
              made == {i \in 1..Len(bucket) :
                          \E s \in {<<"x">>, <<"y">>, <<"(">>} :
                              bucket[i] = format_templated_entry(last'.text, s)}
              top == CHOOSE i \in made : \A j \in made : j <= i
          IN  /\ last'.res = "removed"
              /\ data' = SetBucket(data, bar, last'.kind, PopAt(bucket, top - 1))
              /\ history' = Append(history,
                                   RemoveEntry(bar, last'.kind, bucket[top], top - 1))]_vars

\* C10: every operation that changes self.data leaves a pending autosave or
\* has saved before it returns.
EveryChangeRequestsSave ==
    [][(data' # data /\ last'.op # "start")
       => (autosave_after_id' \in timers' \/ last'.save = "saved")]_vars

\* C11: at most one autosave timer is pending; a save request leaves exactly
\* the timer it starts pending (the earlier one is cancelled), and the write
\* of a firing timer leaves none, so a burst of requests causes one write,
\* made after the last request.
DebounceOneTimer ==
    [][/\ Cardinality(timers') <= 1
       /\ (/\ last'.save = "scheduled"
           /\ \/ last' # last \/ data' # data \/ history' # history
              \/ (timers \subseteq timers' /\ timers' # timers))
          => timers' = {autosave_after_id'}
       /\ (last' = last /\ timers' \subseteq timers /\ timers' # timers)
          => (/\ timers' = {}
              /\ \E outcome \in WriteOutcomes :
                     disk' = save_session_json(disk, data, outcome))]_vars

\* C11: two save requests in a row (a mutation, then its undo) before any
\* write has reached the file, and one timer is pending.
TwoRequestsOneTimer ==
    /\ last.op = "undo" /\ last.after = "add_point"
    /\ disk.state = "absent"
    /\ timers = {autosave_after_id}

\* the persisted file holds the in-memory session
Persisted == disk.state = "ok" /\ disk.obj = ToJson(data)

\* the session of a first start with no file, which no handler has changed
Untouched ==
    /\ disk = AbsentFile
    /\ timers = {}
    /\ data = init_data(AbsentFile, 0)

\* C12: when the timer is served fairly and writes succeed, either the session
\* keeps being changed for ever, or from some point on the persisted file
\* equals the in-memory session (unless nothing was ever changed).
PersistenceLiveness ==
    \/ []<><<TRUE>>_data
    \/ <>[](Persisted \/ Untouched)

\* C13: a write of the autosave callback that does not leave the session in
\* the file changes neither self.data nor the undo history nor anything else
\* of the session; a reset whose write fails is still a complete reset; and
\* every write that lands afterwards stores the session of that moment.
FailedWriteSwallowed ==
    [][/\ (last' = last /\ timers' \subseteq timers /\ timers' # timers /\ ~Persisted')
          => /\ data' = data /\ history' = history
             /\ UNCHANGED <<shift_held, last_selected_row, now, autosave_after_id>>
       /\ (last'.op = "new_session" /\ ~Persisted')
          => /\ data' = EnsureAll(EmptyDict, now') /\ history' = <<>>
             /\ disk' \in {disk, CorruptFile}
       /\ (disk' # disk /\ disk'.state = "ok") => disk'.obj = ToJson(data')]_vars

\* C13: a write has failed half-way while an undo entry was on the stack, and
\* the entry and the entry's text are still there.
FailedWriteKeepsSession ==
    /\ disk = CorruptFile
    /\ timers = {}
    /\ last.op = "add_point" /\ last.res = "added"
    /\ Len(history) = 1
    /\ In(last.text, LastList)

\* a field of the file that is a list of strings
ListOfStrings(field) ==
    field.type = "array" /\ \A i \in DOMAIN field.items : field.items[i] # NumberItem

\* C14: right after a start, for every key of BAR_ORDER, ts and each of the
\* four lists hold the file's value when the file has the key with that field
\* present and well-typed (ts a string, a category a list of strings) and the
\* fresh session's value otherwise; self.data has no other key; the load
\* returns True exactly when a file was found and parsed, and when it returns
\* False self.data is the fresh session.
LoadMergesWellTyped ==
    last.op = "start" =>
        LET prior == EnsureAll(EmptyDict, now)
            parsed == disk.state \in {"ok", "array"}
            Has(key) == /\ disk.state = "ok"
                        /\ str(key) \in DOMAIN disk.obj
                        /\ disk.obj[str(key)].dict
        IN  /\ DOMAIN data = BarKeys
            /\ \A key \in BarKeys :
                 /\ data[key].ts = IF Has(key) /\ disk.obj[str(key)].ts.type = "string"
                                   THEN disk.obj[str(key)].ts.ts
                                   ELSE prior[key].ts
                 /\ \A k \in KindSet :
                      data[key][k] = IF Has(key) /\ ListOfStrings(disk.obj[str(key)][k])
                                     THEN disk.obj[str(key)][k].items
                                     ELSE prior[key][k]
            /\ load_session_result(disk) = parsed
            /\ ~load_session_result(disk) => data = prior

\* C15: the file a successful _save_session_json writes for the session holds
\* every bar under the string of its key, and _load_session_json reads it into
\* a session freshly initialised at any time as the same 83 records: same ts,
\* same four lists.
SessionFileRoundTrip ==
    LET file == save_session_json(disk, data, "ok")
    IN  /\ DOMAIN file.obj = {str(key) : key \in BarKeys}
        /\ \A t \in 0..MaxClock :
             /\ load_session_json(EnsureAll(EmptyDict, t), file) = data
             /\ load_session_result(file)

\* C15: the application has started from a file the autosave wrote after an
\* import, at a later time than the session's records were made.
RestoredImportedSession ==
    /\ last.op = "start"
    /\ now = 1
    /\ Persisted
    /\ data[StrKey("RTH")].bull = <<PlainLabel, PlainLabel>>
    /\ data[IntKey(1)].ts = 0

\* the key the rule gives a string: "RTH"/"ETH" in any letter case are
\* themselves, an integer string n (what int() accepts, white space around the
\* number included) is min(81, max(1, n)), any other is "RTH"
KeyByRule(s) ==
    IF upper(s) = KeyChars("RTH") THEN StrKey("RTH")
    ELSE IF upper(s) = KeyChars("ETH") THEN StrKey("ETH")
    ELSE IF IsIntLiteral(strip(s)) THEN IntKey(Min(81, Max(1, IntOf(strip(s)))))
    ELSE StrKey("RTH")

\* the import of a one-row file has given the bar of this key the lines of the
\* Bull cell, blank lines dropped, and three empty lists, and has changed
\* nothing else of the session
RowImportedAs(key) ==
    /\ key \in BarKeys
    /\ data' = [data EXCEPT
                  ![key] = [ts |-> data[key].ts,
                            bull |-> DropBlank(split(last'.final.text)),
                            bear |-> <<>>, tr |-> <<>>, bias |-> <<>>]]

\* C16 as stated: the first cell of an imported row, as it stands in the file,
\* is mapped by the rule to a key of BAR_ORDER, and the row's cells become
\* that bar's four lists.
ImportFollowsKeyRule ==
    [][(last'.op = "load_csv" /\ last'.res = "loaded" /\ last'.n = 1)
       => RowImportedAs(KeyByRule(last'.text))]_vars

\* C16: the first cell of an imported row, without the white space around it,
\* is mapped by the rule to a key of BAR_ORDER, and the row's cells become
\* that bar's four lists.
ImportFollowsKeyRuleOnStrippedCell ==
    [][(last'.op = "load_csv" /\ last'.res = "loaded" /\ last'.n = 1)
       => RowImportedAs(KeyByRule(strip(last'.text)))]_vars

\* C16: the row "5" with the Bull cell "above EMA\nDB(x)" has been imported
\* and bar 5 holds the two entries.
ImportedExampleRow ==
    /\ last.op = "load_csv" /\ last.res = "loaded"
    /\ last.text = <<"5">>
    /\ data[IntKey(5)].bull =
         << <<"a", "b", "o", "v", "e", " ", "E", "M", "A">>,
            <<"D", "B", "(", "x", ")">> >>
    /\ data[IntKey(5)].bear = <<>>

\* C17: an export or import whose file access fails ends with an error message
\* shown to the user: no run of save_csv or load_csv ends with the exception
\* leaving the handler.
CsvFailureShowsMessage ==
    last.op \in {"save_csv", "load_csv"}
        => last.res \in {"saved", "loaded", "cancelled", "nothing", "failed"}

\* the tag of the entry a successful handler pushes
PushedTag(op) ==
    CASE op \in AddOps -> "add"
      [] op \in RemoveOps -> "remove"
      [] OTHER -> op

EmptyUndoChangesNothing ==
    [][(history = <<>> /\ last'.op = "undo" /\ last' # last)
       => /\ last'.res = "nothing"
          /\ last'.save = "none"
          /\ UNCHANGED <<data, history, timers, autosave_after_id, disk,
                         last_selected_row>>]_vars

\* C19: undo_last has run on a session that has no history and never had a
\* save requested.
UndoWithNothingToUndo ==
    /\ last.op = "undo" /\ last.res = "nothing"
    /\ history = <<>>
    /\ timers = {} /\ autosave_after_id = 0

\* the list without its element at the 1-based position i
Without(bucket, i) ==
    [k \in 1..(Len(bucket) - 1) |-> IF k < i THEN bucket[k] ELSE bucket[k + 1]]

\* C20: an erase of a plain text t (Shift and a button or a custom text, or
\* remove_point) from a list that does not hold t verbatim changes neither
\* data nor history; from a list that holds t it removes exactly the element
\* at the first position of t and pushes one remove entry with t and that
\* 0-based position.
PlainEraseNeedsExactMatch ==
    [][(/\ last'.op \in RemoveOps
        /\ ~is_templated_label(last'.text)
        /\ (last' # last \/ history' # history))
       => LET bar == BarAt(last'.row)
              kind == last'.kind
              t == last'.text
              bucket == data[bar][kind]
          IN  IF ~In(t, bucket)
              THEN /\ data' = data
                   /\ history' = history
                   /\ last'.res = "bell"
              ELSE \E i \in 1..Len(bucket) :
                     /\ bucket[i] = t
                     /\ \A j \in 1..(i - 1) : bucket[j] # t
                     /\ data' = [data EXCEPT ![bar][kind] = Without(bucket, i)]
                     /\ history' = Append(history, RemoveEntry(bar, kind, t, i - 1))
                     /\ last'.res = "removed"]_vars

\* C20: a custom text has been erased from a position behind the head of its
\* list, and the remove entry on top of the history names that position.
ErasedBehindHead ==
    /\ last.op = "custom_erase" /\ last.res = "removed"
    /\ ~is_templated_label(last.text)
    /\ history # <<>>
    /\ history[Len(history)].tag = "remove"
    /\ history[Len(history)].idx >= 1
    /\ history[Len(history)].text = last.text

\* C21: when new_session has run, the history is empty and self.data holds
\* exactly the 83 keys of BAR_ORDER, each with four empty lists; an undo_last
\* that follows it finds nothing to undo and leaves that session as it is.
ResetLeavesEmptySession ==
    [][/\ last'.op = "new_session" =>
            /\ history' = <<>>
            /\ DOMAIN data' = BarKeys
            /\ Cardinality(DOMAIN data') = 83
            /\ \A key \in BarKeys : \A k \in KindSet : data'[key][k] = <<>>
       /\ (last.op = "new_session" /\ last'.op = "undo") =>
            /\ last'.res = "nothing"
            /\ data' = data
            /\ history' = <<>>]_vars

\* C21: the session was reset while the save an earlier mutation had
\* requested was still pending.
ResetAfterMutation ==
    /\ last.op = "new_session"
    /\ timers # {}
    /\ history = <<>>

\* C22: clear_current_bar gives the targeted bar a record with four empty
\* lists, pushes exactly one clear-bar entry that holds the bar's previous
\* record (timestamp and the four lists), and changes no other bar's record.
ClearBarKeepsPreviousRecord ==
    [][(last'.op = "clear_bar" /\ (last' # last \/ history' # history))
       => LET bar == BarAt(last'.row)
          IN  /\ last'.row = Max(0, Min(Len(BAR_ORDER) - 1, last_selected_row))
              /\ \A k \in KindSet : data'[bar][k] = <<>>
              /\ \A key \in BarKeys \ {bar} : data'[key] = data[key]
              /\ DOMAIN data' = DOMAIN data
              /\ Len(history') = Len(history) + 1
              /\ SubSeq(history', 1, Len(history)) = history
              /\ history'[Len(history')].tag = "clear_bar"
              /\ history'[Len(history')].bar = bar
              /\ history'[Len(history')].prev = data[bar]]_vars

\* C22: a bar that held an entry has been cleared, and the entry on top of
\* the history holds the bar's record with that entry.
ClearedBarWithEntries ==
    /\ last.op = "clear_bar" /\ last.res = "cleared"
    /\ history # <<>>
    /\ history[Len(history)].tag = "clear_bar"
    /\ history[Len(history)].prev.bull # <<>>
    /\ data[history[Len(history)].bar].bull = <<>>

\* the (bar, category) lists a step has changed
ChangedLists ==
    {c \in BarKeys \X KindSet : data'[c[1]][c[2]] # data[c[1]][c[2]]}

\* C23: the Delete key pushes no entry for an empty category and leaves data
\* alone when every selected category is empty; a non-empty category becomes
\* empty and gets exactly one clear-category entry that holds its previous
\* list; and no later step alters an entry that stays in the history.
ClearCategorySnapshots ==
    [][/\ (last'.op = "clear_cell" /\ (last' # last \/ history' # history)) =>
            /\ \A c \in ChangedLists :
                 /\ data[c[1]][c[2]] # <<>>
                 /\ data'[c[1]][c[2]] = <<>>
                 /\ Cardinality({i \in (Len(history) + 1)..Len(history') :
                                   /\ history'[i].tag = "clear_cell"
                                   /\ history'[i].bar = c[1]
                                   /\ history'[i].kind = c[2]
                                   /\ history'[i].prev_list = data[c[1]][c[2]]}) = 1
            /\ Len(history') = Len(history) + Cardinality(ChangedLists)
            /\ SubSeq(history', 1, Len(history)) = history
            /\ \A key \in BarKeys : data'[key].ts = data[key].ts
            /\ ChangedLists = {} => (data' = data /\ last'.res = "bell")
       /\ \A i \in 1..Min(Len(history), Len(history')) :
            history[i].tag = "clear_cell" => history'[i] = history[i]]_vars

\* C23: a category was cleared and a text was then added to the live list;
\* the entry of the clear still holds the previous list.
SnapshotOutlivesLaterAdd ==
    /\ Len(history) >= 2
    /\ history[Len(history) - 1].tag = "clear_cell"
    /\ history[Len(history) - 1].prev_list # <<>>
    /\ history[Len(history)].tag = "add"
    /\ history[Len(history)].bar = history[Len(history) - 1].bar
    /\ data[history[Len(history)].bar].bull = <<history[Len(history)].text>>

\* C24: the autosave path follows a strict priority: the path the variable
\* names when it is set (to a path) and its parent directory can be created;
\* otherwise sessions/session.json next to the module when that directory can
\* be created; otherwise the file in the temporary directory.  A save and a
\* load in the same environment resolve to the same path.
PathPriorityChain ==
    [][last'.op \in {"save_path", "load_path"} =>
         LET e == last'.env
             named == e.set /\ e.value # <<>>
         IN  /\ (named /\ e.env_dir) => last'.res = "env"
             /\ (~(named /\ e.env_dir) /\ e.project_dir) => last'.res = "project"
             /\ (~(named /\ e.env_dir) /\ ~e.project_dir) => last'.res = "temp"
             /\ (last.op \in {"save_path", "load_path"} /\ last.env = e)
                    => last'.res = last.res]_vars

\* C24: a load has resolved the path in an environment
\* where the variable names a path whose directory cannot be created while
\* the sessions directory can.
LoadAfterSaveFallsBack ==
    /\ last.op = "load_path"
    /\ last.env.set /\ last.env.value # <<>> /\ ~last.env.env_dir
    /\ last.env.project_dir
    /\ last.res = "project"

\* C25: an export that succeeds writes the header Bar,Bull,Bear,TR,Bias and
\* then exactly 83 rows, the i-th for the i-th key of BAR_ORDER (RTH, ETH,
\* 1..81), whose four category cells are the lists' entries joined with
\* newline characters; no export changes self.data or the history.
ExportWritesEveryBar ==
    [][last'.op = "save_csv" =>
         /\ data' = data /\ history' = history
         /\ last'.res = "saved" =>
              /\ Len(last'.out) = 1 + 83
              /\ Len(BAR_ORDER) = 83
              /\ last'.out[1] = << <<"B", "a", "r">>, <<"B", "u", "l", "l">>,
                                   <<"B", "e", "a", "r">>, <<"T", "R">>,
                                   <<"B", "i", "a", "s">> >>
              /\ BAR_ORDER[1] = StrKey("RTH") /\ BAR_ORDER[2] = StrKey("ETH")
              /\ \A i \in 1..81 : BAR_ORDER[i + 2] = IntKey(i)
              /\ \A i \in 1..83 :
                   LET rec == data[BAR_ORDER[i]]
                   IN  last'.out[i + 1] = <<str(BAR_ORDER[i]), join(rec.bull),
                                            join(rec.bear), join(rec.tr),
                                            join(rec.bias)>>]_vars

\* C25: a session whose RTH holds two Bull entries has been exported, and the
\* first data row holds them in one cell, one per line.
ExportedTwoEntries ==
    /\ last.op = "save_csv" /\ last.res = "saved"
    /\ Len(data[StrKey("RTH")].bull) = 2
    /\ last.out[2][1] = <<"R", "T", "H">>
    /\ last.out[2][2] = data[StrKey("RTH")].bull[1] \o <<"\n">>
                          \o data[StrKey("RTH")].bull[2]


\* whether a presets.json was found, parsed, and is an object
Readable(f) == f.state = "ok"

\* the first of the two files next to the module that is readable, if any
FirstReadable ==
    IF Readable(Candidates(preset_files)[1]) THEN Candidates(preset_files)[1]
    ELSE Candidates(preset_files)[2]

\* the list a start must show for a category, with the elements of the
\* file's list taken as they are (raw) or converted to strings
ExpectedList(k, raw) ==
    LET cwd == preset_files.cwd
        own == cwd.obj[PointsKey(k)]
        given == FirstReadable.obj[k]
    IN  IF Readable(cwd) /\ own.type = "array"
        THEN (IF raw THEN own.items ELSE StrAll(own.items))
        ELSE IF Readable(FirstReadable) /\ given.type = "array"
        THEN (IF raw THEN given.items ELSE StrAll(given.items))
        ELSE DefaultPresets[k]

\* a restart that follows an edit whose four lists _save_presets has written
\* shows these four lists
SavedListsReadBack ==
    (/\ last.op = "edit_presets" /\ last.res = "updated"
     /\ preset_files.cwd = save_presets(presets, preset_files.cwd, "ok")
     /\ last'.op = "start")
    => presets' = presets

\* C26 as stated: with one presets.json (the working directory is the
\* module's directory and no file one level up), each category's list at a
\* start equals the list the file gives for it when the file is readable and
\* holds a list for the category, else the built-in default; and a file
\* written by _save_presets is read back by the next start as the same lists.
PresetsAreTheFilesLists ==
    /\ [](( /\ last.op = "start"
            /\ preset_files.same
            /\ preset_files.parent = AbsentPresets)
          => \A k \in KindSet : presets[k] = ExpectedList(k, TRUE))
    /\ [][SavedListsReadBack]_vars

\* C26 amended: each category's list at a start is the list of the
\* working-directory file under the category's _points key, else the list of
\* the first readable file next to the module under the category's plain key,
\* else the built-in default, where the elements of a file's list are
\* converted to strings; and a file written by _save_presets is read back by
\* the next start as the same four lists.
PresetsAreTheFilesListsAsStrings ==
    /\ [](last.op = "start"
          => \A k \in KindSet : presets[k] = ExpectedList(k, FALSE))
    /\ [][SavedListsReadBack]_vars

\* C26: the application has restarted on a presets.json that _save_presets
\* wrote after an edit, and shows a list whose number was converted to text
\* at the first start.
RestartedOnSavedPresets ==
    /\ last.op = "start"
    /\ preset_files.cwd.obj["tr_points"] = JsonArray(<< <<"x">> >>)
    /\ preset_files.cwd.obj["bull_points"] = JsonArray(<< <<"y">>, <<"7">> >>)
    /\ presets.bull = << <<"y">>, <<"7">> >>
    /\ presets.tr = << <<"x">> >>


\* the entry undo_last pops, and the list it names
TopEntry(h) == h[Len(h)]
TopList(d, h) == d[TopEntry(h).bar][TopEntry(h).kind]

\* C27: an undo_last that pops an add entry removes the last element of the
\* entry's list when that element equals the recorded text; when it differs
\* or the list is empty, self.data stays as it is; in both cases the entry
\* is gone from the history.
UndoAddRemovesOnlyItsText ==
    [][(/\ history # <<>> /\ history' # history /\ last'.op = "undo"
        /\ TopEntry(history).tag = "add"
        /\ TopEntry(history).bar \in DOMAIN data)
       => LET bucket == TopList(data, history)
              n == Len(bucket)
          IN  /\ history' = SubSeq(history, 1, Len(history) - 1)
              /\ IF n > 0 /\ bucket[n] = TopEntry(history).text
                 THEN /\ TopList(data', history) = SubSeq(bucket, 1, n - 1)
                      /\ ChangedLists
                           \subseteq {<<TopEntry(history).bar, TopEntry(history).kind>>}
                 ELSE data' = data]_vars

\* C27: undo_last has popped an add entry whose text was not the last
\* element of the list any more: the list is as it was and the history is
\* one entry shorter.
UndoneAddFoundOtherText ==
    /\ last.op = "undo" /\ last.res = "undone"
    /\ pre.history # <<>>
    /\ TopEntry(pre.history).tag = "add"
    /\ TopList(pre.data, pre.history) # <<>>
    /\ data = pre.data
    /\ history = SubSeq(pre.history, 1, Len(pre.history) - 1)

\* C28: an undo_last that pops a remove entry puts the recorded text back at
\* the recorded index, brought into the range 0..len(list): the list is one
\* longer, the elements it had keep their order around the restored text,
\* no other list changes, and the undo reports no failure.
UndoRemoveInsertsClamped ==
    [][(/\ history # <<>> /\ history' # history /\ last'.op = "undo"
        /\ TopEntry(history).tag = "remove"
        /\ TopEntry(history).bar \in DOMAIN data)
       => LET bucket == TopList(data, history)
              n == Len(bucket)
              idx == TopEntry(history).idx
              i == IF idx < 0 THEN 0 ELSE IF idx > n THEN n ELSE idx
          IN  /\ last'.res = "undone"
              /\ history' = SubSeq(history, 1, Len(history) - 1)
              /\ Len(TopList(data', history)) = n + 1
              /\ TopList(data', history) =
                   SubSeq(bucket, 1, i) \o <<TopEntry(history).text>>
                     \o SubSeq(bucket, i + 1, n)
              /\ ChangedLists
                   \subseteq {<<TopEntry(history).bar, TopEntry(history).kind>>}]_vars

\* C28: undo_last has popped a remove entry whose index lies beyond the end
\* of the list, and the text is back as the list's last element.
UndoneRemoveBeyondEnd ==
    /\ last.op = "undo" /\ last.res = "undone"
    /\ pre.history # <<>>
    /\ TopEntry(pre.history).tag = "remove"
    /\ TopEntry(pre.history).idx > Len(TopList(pre.data, pre.history))
    /\ TopList(data, pre.history)
         = Append(TopList(pre.data, pre.history), TopEntry(pre.history).text)


\* the prompt is cancelled, or answered with nothing but white space
BlankAnswers == {None, Answer(<<>>), Answer(<<" ">>), Answer(<<" ", " ">>)}

\* C29: a click on a template button whose prompt is cancelled or answered
\* with empty or white-space text ends as a cancel (or as the bell of a
\* template that is already there) with self.data and the history as they
\* were; and a step that ends as a cancel changes neither self.data nor the
\* history, starts or cancels no autosave timer, and writes nothing.
BlankPromptChangesNothing ==
    [][/\ \A kind \in KindSet : \A answer \in BlankAnswers :
            LET r == handle_point_button_result(data, history, FALSE,
                                                target_bar_key, kind,
                                                TemplateLabel, answer, now)
            IN  /\ r.res \in {"cancel", "bell"}
                /\ r.res = "bell"
                     => any_templated_for_base_exists(
                            data[target_bar_key][kind], button_base(TemplateLabel))
                /\ r.data = data /\ r.history = history
       /\ (last'.op = "add" /\ last'.res = "cancel" /\ last' # last)
          => /\ last'.save = "none"
             /\ UNCHANGED <<data, history, timers, autosave_after_id, disk,
                            last_selected_row>>]_vars

\* C29: the prompt of a template button was cancelled or left blank on a bar
\* that already holds an entry and has an undo history.
CancelledPromptOnUsedBar ==
    /\ last.op = "add" /\ last.res = "cancel"
    /\ last.text = TemplateLabel
    /\ data[BarAt(last.row)][last.kind] # <<>>
    /\ history # <<>>


\* the session the run started with
StartSession == init_data(disk, 0)

\* self.data after undo_last has been called once for every entry of h
RECURSIVE UndoAll(_, _)
UndoAll(d, h) ==
    IF h = <<>> THEN d
    ELSE UndoAll(undo_event(d, h[Len(h)]), SubSeq(h, 1, Len(h) - 1))

\* C30: in a run of adds, removes, clear-bars, clear-categories and undos,
\* without import or reset, undoing every entry of the history
\* gives the session the run started with, so the session is that one again
\* whenever the history is empty; a mutation's entries, undone, give the
\* session the mutation found; and every undo_last leaves a session from
\* which the remaining entries lead back to the start.
UndoRewindsToStart ==
    [][/\ UndoAll(data, history) = StartSession
       /\ Len(history') > Len(history)
          => /\ SubSeq(history', 1, Len(history)) = history
             /\ UndoAll(data', SubSeq(history', Len(history) + 1, Len(history')))
                  = data
       /\ (last'.op = "undo" /\ Len(history') < Len(history))
          => /\ history' = SubSeq(history, 1, Len(history) - 1)
             /\ UndoAll(data', history') = UndoAll(data, history)
             /\ (history' = <<>> => data' = StartSession)]_vars

\* C30: undo_last has run in the middle of a rewind: two entries are still
\* on the history, a clear among them, on a session that was saved with
\* entries and is not as it was saved.
UndoneOneOfThree ==
    /\ last.op = "undo" /\ last.res = "undone"
    /\ Len(history) = 2
    /\ \E i \in 1..2 : history[i].tag \in {"clear_bar", "clear_cell"}
    /\ \E i \in 1..2 : history[i].tag \in {"add", "remove"}
    /\ StartSession = SavedSession
    /\ data # StartSession


\* C31: whenever a templated add completes and pushes its add entry, the
\* added text is the last element of the list that self.data holds for the
\* entry's bar and category, also when the Delete key has cleared that cell
\* while the prompt was open.
TemplatedAddLandsInData ==
    [][(/\ last'.op = "add" /\ last'.res = "added"
        /\ is_templated_label(last'.text)
        /\ Len(history') = Len(history) + 1)
       => LET e == TopEntry(history')
              bucket == data'[e.bar][e.kind]
          IN  /\ e.tag = "add"
              /\ bucket # <<>>
              /\ bucket[Len(bucket)] = e.text]_vars


\* the (bar, category) cells of the entries a step has pushed
PushedCells ==
    {<<history'[i].bar, history'[i].kind>> : i \in (Len(history) + 1)..Len(history')}

\* no bar's time stamp differs after the step
SameStamps == \A k \in DOMAIN data : k \in DOMAIN data' /\ data'[k].ts = data[k].ts

\* C32: an add, a remove or a clear-category changes only the lists its
\* history entries name and no time stamp; a clear-bar changes only the record
\* of the bar it targets; and a CSV import, completed or failed, changes no
\* bar's time stamp.
MutationFrame ==
    [][/\ (/\ last'.op \in AddOps \cup RemoveOps \cup {"clear_cell"}
           /\ Len(history') > Len(history))
          => /\ DOMAIN data' = DOMAIN data
             /\ ChangedLists \subseteq PushedCells
             /\ last'.op # "clear_cell" => Cardinality(PushedCells) = 1
             /\ SameStamps
       /\ (last'.op = "clear_bar" /\ Len(history') > Len(history))
          => /\ DOMAIN data' = DOMAIN data
             /\ \A k \in DOMAIN data : k # TopEntry(history').bar => data'[k] = data[k]
       /\ (last'.op = "load_csv" /\ (last' # last \/ data' # data))
          => SameStamps]_vars

\* C32: an import has overwritten the lists of a bar that a clear-bar had
\* stamped with a later time, and the bar still carries that stamp.
ImportedOverStampedBar ==
    /\ last.op = "load_csv"
    /\ data[StrKey("RTH")].ts = 1
    /\ data[StrKey("RTH")].bull # <<>>


\* the rows after the first that the import that ran last has applied, empty
\* rows left out
AppliedRows(l) == {i \in 2..(1 + l.n) : i <= Len(l.out) /\ l.out[i] # <<>>}

\* the key the first cell of each of these rows gives
AppliedKeys(l) == [i \in AppliedRows(l) |-> KeyByRule(strip(l.out[i][1]))]

\* the cell of a row, empty when the row is too short
CellOf(row, i) == IF i <= Len(row) THEN row[i] ELSE <<>>

\* C33: after an import, a bar that no data row names has its four lists as
\* before; a bar that one or more rows name (numbers beyond the range taken
\* as 1 or 81, cells that are no key as RTH) has the lists of the last of
\* these rows; and the first row of the file is never applied.
ImportTouchesOnlyNamedBars ==
    [][(last'.op = "load_csv" /\ (last' # last \/ data' # data))
       => LET key == AppliedKeys(last')
          IN  \A k \in BarKeys :
            LET hits == {i \in DOMAIN key : key[i] = k}
                row == last'.out[CHOOSE i \in hits : \A j \in hits : j <= i]
            IN  IF hits = {}
                THEN data'[k] = data[k]
                ELSE /\ data'[k].bull = DropBlank(split(CellOf(row, 2)))
                     /\ data'[k].bear = DropBlank(split(CellOf(row, 3)))
                     /\ data'[k].tr = DropBlank(split(CellOf(row, 4)))
                     /\ data'[k].bias = DropBlank(split(CellOf(row, 5)))]_vars

\* C33: a file whose first row looks like a row for bar 5 and whose two
\* data rows, 81 and then 99, both name bar 81 has been imported into the
\* saved session: bar 81 has the list of the second row, bar 5 is empty,
\* and RTH has its two saved entries.
ImportedTwoRowsForOneBar ==
    /\ last.op = "load_csv" /\ last.res = "loaded"
    /\ last.out = <<<<<<"5">>, <<"h">>>>, <<<<"8", "1">>, <<"q">>>>,
                    <<<<"9", "9">>, <<"p">>>>>>
    /\ data[IntKey(81)].bull = << <<"p">> >>
    /\ data[IntKey(5)].bull = <<>>
    /\ data[StrKey("RTH")].bull = SavedSession[StrKey("RTH")].bull


\* C34: a write that lands stores the session as it is when the write is
\* made: the autosave callback stores self.data of the moment it runs,
\* whichever change has requested it, and the write of a reset stores the
\* new session; so after a reset or an import no write brings back a list
\* of the session before it.
WritesStoreCurrentSession ==
    [][(disk' # disk /\ disk'.state = "ok")
       => /\ disk'.obj = ToJson(data')
          /\ (last' = last /\ timers' # timers)
                => (data' = data /\ disk'.obj = ToJson(data))
          /\ \A k \in DOMAIN data' : \A kind \in KindSet :
                disk'.obj[str(k)][kind].items = data'[k][kind]]_vars

\* C34: the autosave callback has run after an import that replaced the
\* lists of RTH, and the file holds the imported session.
WrittenAfterImport ==
    /\ last.op = "load_csv" /\ last.res = "loaded"
    /\ timers = {}
    /\ disk.state = "ok"
    /\ disk.obj[str(StrKey("RTH"))].bull.items = data[StrKey("RTH")].bull
    /\ data[StrKey("RTH")].bull = << <<"a">>, <<"a">> >>


\* C35: an autosave write that fails leaves the file as the last successful
\* write made it: the session the next start would load from the file is the
\* one it would have loaded before the failed write.
FailedWriteKeepsFile ==
    [][(/\ last' = last /\ timers' \subseteq timers /\ timers' # timers
        /\ disk.state = "ok"
        /\ ~Persisted')
       => /\ disk'.state = "ok"
          /\ init_data(disk', 0) = init_data(disk, 0)]_vars


\* C36: no category list of self.data ever holds an entry that is empty or
\* made of white space only, whatever button adds, custom-text adds,
\* templated adds and undos the session went through
NoBlankEntries ==
    \A bar \in DOMAIN data : \A kind \in KindSet :
        \A i \in 1..Len(data[bar][kind]) : strip(data[bar][kind][i]) # <<>>


RowRange == 0..(Len(BAR_ORDER) - 1)

\* C37: the targeted row is always one of the rows 0..82 and the targeted
\* bar a key of BAR_ORDER, whatever row the sheet reported; every mutation
\* is recorded on such a row; _last_selected_row comes to a row outside
\* 0..82 only by a report of the sheet, never by _select_row;
\* and an Up or Down key leaves the selection on a row of 0..82 at most one
\* away from the targeted row, so that Up at row 0 and Down at row 82 leave
\* it where it is
TargetRowInRange ==
    /\ [](/\ target_row_index \in RowRange
          /\ target_bar_key \in BarKeys
          /\ last.op \in Mutations => last.row \in RowRange)
    /\ [][(last_selected_row' # last_selected_row
            /\ last_selected_row' \notin RowRange)
            => /\ last' # last
               /\ last'.op = "select" /\ last'.row = last_selected_row']_vars
    /\ [][(last' = last /\ last_selected_row' # last_selected_row)
            => /\ last_selected_row' \in RowRange
               /\ last_selected_row' \in {target_row_index - 1, target_row_index,
                                          target_row_index + 1}
               /\ target_row_index = 0 => last_selected_row' \in {0, 1}
               /\ target_row_index = Len(BAR_ORDER) - 1
                     => last_selected_row' \in {Len(BAR_ORDER) - 2,
                                                Len(BAR_ORDER) - 1}]_vars

\* a point was added on the last row of the sheet, bar 81
AddedOnLastRow ==
    /\ last.op = "add_point" /\ last.res = "added"
    /\ last.row = Len(BAR_ORDER) - 1
    /\ last_selected_row = Len(BAR_ORDER) - 1
    /\ In(PlainLabel, data[IntKey(MaxBarNumber)].bull)

====
